---------------------------- MODULE Spec2Model ----------------------------
(***************************************************************************)
(* Model of the substrate-parser core: the unchecked-extrinsic framer      *)
(* (unchecked_extrinsic.rs) and the storage-key parser (storage_data.rs),  *)
(* both driving the type-directed decoder over a small type registry.      *)
(*                                                                         *)
(* The specifications share the variables:                                 *)
(*   Spec        - decode_as_unchecked_extrinsic, one step per element     *)
(*   SpecKey     - process_key_mapped, one step per key part               *)
(*   SpecEntry   - decode_as_storage_entry: prefix, key, value             *)
(*   SpecChecker - the propagation carrier, one step per method call       *)
(*   SpecInfo    - the carrier with the `info` it collects                  *)
(*   SpecCommons - the compact search of decoding_commons.rs               *)
(*   SpecRuntimeVersion - spec_name_version of traits.rs                   *)
(***************************************************************************)
EXTENDS Integers, Sequences, FiniteSets, TLC

VARIABLES
    pc,               \* place reached in the function being executed
    input,            \* extrinsic bytes (`input`)
    meta,             \* metadata: extrinsic.version and extrinsic type params
    position,         \* `position` of the function being executed
    extrinsic_start,  \* position after the compact length prefix
    extrinsic_length, \* decoded compact length
    version_byte,     \* <<v>> once the version byte v is read, NotRead before
    decoded,          \* elements decoded so far, in order, with their spans
    result,           \* value returned by the function, NoResult before
    hashers,          \* `hashers` of process_key_mapped
    key_ty,           \* `key_ty` id
    key_input,        \* storage key bytes
    start_position,   \* `position` argument of process_key_mapped
    tuple_elements,   \* fields of the resolved tuple key type
    content,          \* key parts processed so far
    reads,            \* buffer reads performed on key_input: <<position, len>>
    entry,            \* `entry_metadata`: kind of entry, value type, docs
    value_input,      \* storage value bytes
    entry_stage,      \* how far decode_as_storage_entry has come
    key,              \* `key` of decode_as_storage_entry, NoKey before
    parent,           \* Checker of the enclosing frame
    current,          \* Checker built for the current frame, NoChecker before
    sibling,          \* second Checker built from the same parent
    collected,        \* `info` of the Propagated of the current frame
    last,             \* the carrier method called last
    data_vec,         \* `data` of the functions of decoding_commons.rs
    called,           \* the function of decoding_commons.rs called last
    pallets,          \* `pallets` of the metadata
    runtime_version   \* what spec_name_version has found so far

vars == <<pc, input, meta, position, extrinsic_start, extrinsic_length,
          version_byte, decoded, result, hashers, key_ty, key_input,
          start_position, tuple_elements, content, reads, entry,
          value_input, entry_stage, key, parent, current, sibling, collected,
          last,
          data_vec, called, pallets, runtime_version>>

\* the variables of decode_as_storage_entry, of the carrier and of the
\* compact search: the extrinsic and key steps leave them alone
EntryVars == <<entry, value_input, entry_stage, key>>
CheckerVars == <<parent, current, sibling, collected, last>>
CommonsVars == <<data_vec, called>>
VersionVars == <<pallets, runtime_version>>
Elsewhere == <<EntryVars, CheckerVars, CommonsVars, VersionVars>>

-----------------------------------------------------------------------------
(* Bounds of the model *)

\* longest extrinsic body (bytes after the version byte)
MaxBody == 5
\* longest hasher list
MaxHashers == 2

-----------------------------------------------------------------------------
(* Values shared by the decoders *)

None == "None"
\* Option<u32>: NoId is None, Some(id) carries the id
NoId == <<>>
Some(id) == <<id>>
NotRead == <<>>
NoResult == [tag |-> "NoResult"]
NoEntry == [kind |-> "None", value_ty |-> 0, docs |-> ""]
NoKey == [tag |-> "NoKey"]
NoChecker == [compact_at |-> <<>>, hint |-> "NoChecker", cycle_check |-> <<>>]
NoCall ==
    [op |-> "none", id |-> 0, hint |-> "None", ok |-> TRUE,
     err |-> [kind |-> "NoError", a |-> 0, b |-> 0]]

\* ParsedData node: kind, numeric value (0 when unused), sub-nodes
Data(kind, value, fields) == [kind |-> kind, value |-> value, fields |-> fields]
NoData == Data("NoData", 0, <<>>)

\* ParserError / BufferError / StorageError / UncheckedExtrinsicError value
Error(kind, a, b) == [kind |-> kind, a |-> a, b |-> b]
NoError == Error("NoError", 0, 0)

\* Result of a decoder step: Ok(data) with the new position, or Err(error)
OkAt(data, pos) == [ok |-> TRUE, data |-> data, pos |-> pos, err |-> NoError]
ErrOf(e) == [ok |-> FALSE, data |-> NoData, pos |-> 0, err |-> e]

\* Wrapping of a ParserError in an outer error (Parsing, ParsingKey, ..)
Wrap(kind, e) == [kind |-> kind, a |-> e.a, b |-> e.b, inner |-> e.kind]
Plain(kind, a, b) == [kind |-> kind, a |-> a, b |-> b, inner |-> None]

-----------------------------------------------------------------------------
(* Buffer abstraction: AddressableBuffer for a byte slice *)

total_len(data) == Len(data)

read_slice(data, pos, len) ==
    IF Len(data) < pos
    THEN ErrOf(Error("Buffer.OutOfRange", pos, Len(data)))
    ELSE IF pos + len > Len(data)
    THEN ErrOf(Error("Buffer.DataTooShort", Len(data), pos + len - Len(data)))
    ELSE [ok |-> TRUE, data |-> SubSeq(data, pos + 1, pos + len),
          pos |-> pos, err |-> NoError]

read_byte(data, pos) ==
    IF Len(data) < pos
    THEN ErrOf(Error("Buffer.OutOfRange", pos, Len(data)))
    ELSE IF pos + 1 > Len(data)
    THEN ErrOf(Error("Buffer.DataTooShort", Len(data), pos + 1 - Len(data)))
    ELSE [ok |-> TRUE, data |-> data[pos + 1], pos |-> pos, err |-> NoError]

\* little-endian value of a byte sequence
RECURSIVE from_le_bytes(_)
from_le_bytes(bytes) ==
    IF bytes = <<>> THEN 0
    ELSE bytes[1] + 256 * from_le_bytes(Tail(bytes))

-----------------------------------------------------------------------------
(* Compact integers *)

\* Compact<T>::decode of parity_scale_codec on a slice, T an unsigned type
\* of `bits` bits; Ok carries the value and the bytes used. The values of
\* the model stay below 2^31, so 32 bits and more never overflow here.
CompactDecode(slice, bits) ==
    LET n == Len(slice)
        bad == [ok |-> FALSE, value |-> 0, used |-> 0]
        good(v, u) == IF bits >= 31 \/ v < 2 ^ bits
                      THEN [ok |-> TRUE, value |-> v, used |-> u]
                      ELSE bad
    IN  IF n = 0 THEN bad
        ELSE LET prefix == slice[1]
                 mode == prefix % 4
             IN CASE mode = 0 -> good(prefix \div 4, 1)
                  [] mode = 1 ->
                        IF n < 2 THEN bad
                        ELSE LET x == from_le_bytes(SubSeq(slice, 1, 2)) \div 4
                             IN IF x > 63 /\ x <= 16383 THEN good(x, 2) ELSE bad
                  [] mode = 2 ->
                        IF n < 4 THEN bad
                        ELSE LET x == from_le_bytes(SubSeq(slice, 1, 4)) \div 4
                             IN IF x > 16383 /\ x <= 1073741823
                                THEN good(x, 4) ELSE bad
                  [] OTHER ->
                        IF prefix \div 4 # 0 \/ n < 5 THEN bad
                        ELSE LET x == from_le_bytes(SubSeq(slice, 2, 5))
                             IN IF x > 1073741823 THEN good(x, 5) ELSE bad

\* crate::compacts::get_compact at a position: the shortest prefix of the
\* data from `pos` that decodes; NoCompact{position} if none does.
get_compact_at(data, pos, bits) ==
    LET lens == {i \in 1..(Len(data) - pos) :
                    CompactDecode(SubSeq(data, pos + 1, pos + i), bits).ok}
    IN  IF Len(data) < pos
        THEN ErrOf(Error("Buffer.OutOfRange", pos, Len(data)))
        ELSE IF lens = {}
        THEN ErrOf(Error("NoCompact", pos, 0))
        ELSE LET i == CHOOSE k \in lens : \A j \in lens : k <= j
                 c == CompactDecode(SubSeq(data, pos + 1, pos + i), bits)
             IN OkAt(Data("Compact", c.value, <<>>), pos + i)

-----------------------------------------------------------------------------
(* Type registry: a small portable registry, one entry per type id *)

Ty(def, fields, variants, path_hint, is_call) ==
    [def |-> def, fields |-> fields, variants |-> variants,
     path_hint |-> path_hint, is_call |-> is_call]

Variant(index, fields) == [index |-> index, fields |-> fields]

T_u8 == 0
T_bool == 1
T_pair == 2
T_unit == 3
T_compact == 4
T_u32 == 5
T_call == 6
T_pallet_call == 7
T_triple == 8
T_missing == 9
T_self == 10
T_ping == 11
T_pong == 12
T_outer == 13
T_list == 14
T_compact_self == 15

Registry ==
    (T_u8 :> Ty("U8", <<>>, <<>>, None, FALSE)) @@
    (T_bool :> Ty("Bool", <<>>, <<>>, None, FALSE)) @@
    (T_pair :> Ty("Tuple", <<T_u8, T_bool>>, <<>>, None, FALSE)) @@
    (T_unit :> Ty("Tuple", <<>>, <<>>, None, FALSE)) @@
    (T_compact :> Ty("Compact", <<T_u32>>, <<>>, None, FALSE)) @@
    (T_u32 :> Ty("U32", <<>>, <<>>, None, FALSE)) @@
    (T_call :> Ty("Variant", <<>>, <<Variant(0, <<T_pallet_call>>)>>,
                  None, TRUE)) @@
    (T_pallet_call :> Ty("Variant", <<>>,
                         <<Variant(0, <<>>), Variant(1, <<T_u8>>)>>,
                         None, FALSE)) @@
    (T_triple :> Ty("Tuple", <<T_u8, T_bool, T_u8>>, <<>>, None, FALSE)) @@
    \* cycles: a tuple of itself, two tuples of each other, a tuple that
    \* leads into them after a byte, a list enum, a compact of itself
    (T_self :> Ty("Tuple", <<T_self>>, <<>>, None, FALSE)) @@
    (T_ping :> Ty("Tuple", <<T_pong>>, <<>>, None, FALSE)) @@
    (T_pong :> Ty("Tuple", <<T_ping>>, <<>>, None, FALSE)) @@
    (T_outer :> Ty("Tuple", <<T_u8, T_ping>>, <<>>, None, FALSE)) @@
    (T_list :> Ty("Variant", <<>>,
                  <<Variant(0, <<>>), Variant(1, <<T_u8, T_list>>)>>,
                  None, FALSE)) @@
    (T_compact_self :> Ty("Compact", <<T_compact_self>>, <<>>, None, FALSE))

\* ResolveType::resolve_ty for PortableRegistry
resolve_ty(id) ==
    IF id \in DOMAIN Registry
    THEN [ok |-> TRUE, ty |-> Registry[id], err |-> NoError]
    ELSE [ok |-> FALSE, ty |-> Ty("None", <<>>, <<>>, None, FALSE),
          err |-> Error("V14TypeNotResolved", id, 0)]

-----------------------------------------------------------------------------
(* Propagation carrier: SpecialtySet and Checker *)

\* Checker::new: SpecialtySet::new and an empty cycle_check
Checker_new == [compact_at |-> NoId, hint |-> None, cycle_check |-> <<>>]

InSeq(x, seq) == \E i \in 1..Len(seq) : seq[i] = x

check_id_unchecked(checker, id) ==
    [ok |-> TRUE, checker |-> [checker EXCEPT !.cycle_check = Append(@, id)],
     err |-> NoError]

\* Checker::check_id
check_id(checker, id) ==
    IF InSeq(id, checker.cycle_check)
    THEN [ok |-> FALSE, checker |-> checker,
          err |-> Error("CyclicMetadata", id, 0)]
    ELSE [ok |-> TRUE,
          checker |-> [checker EXCEPT !.cycle_check = Append(@, id)],
          err |-> NoError]

update_from_path_overwrite(checker, path_hint) ==
    [checker EXCEPT !.hint = path_hint]

\* SpecialtySet::update_from_path
update_from_path(checker, path_hint) ==
    IF checker.hint = None THEN [checker EXCEPT !.hint = path_hint]
    ELSE checker

\* Checker::update_for_ty
update_for_ty(checker, ty, id) ==
    LET checked == check_id(checker, id)
    IN  IF ~checked.ok THEN checked
        ELSE [checked EXCEPT
                !.checker = update_from_path(checked.checker, ty.path_hint)]

\* Checker::update_for_field, for a field of type `id` with hint `field_hint`
update_for_field(checker, field_hint, id) ==
    LET hinted == IF checker.hint = None
                  THEN [checker EXCEPT !.hint = field_hint]
                  ELSE checker
    IN  check_id(hinted, id)

drop_cycle_check_kept(checker) == checker

\* Checker::drop_cycle_check
drop_cycle_check(checker) == [checker EXCEPT !.cycle_check = <<>>]

\* SpecialtySet::reject_compact
reject_compact(checker) ==
    IF checker.compact_at # NoId
    THEN [ok |-> FALSE, err |-> Error("UnexpectedCompactInsides",
                                      checker.compact_at[1], 0)]
    ELSE [ok |-> TRUE, err |-> NoError]

-----------------------------------------------------------------------------
(* Type-directed decoder *)

\* size_of the unsigned primitives, in bytes
SizeOf(def) == IF def = "U8" THEN 1 ELSE 4

\* `check?; then`: the error of a failed check, or what follows it
IfOk(check, then) == IF check.ok THEN then ELSE ErrOf(check.err)

\* an unsigned integer found as a compact
unsigned_compact(def, c) ==
    IF c.ok THEN OkAt(Data(def, c.data.value, <<>>), c.pos) ELSE c

\* an unsigned integer found as size_of(T) little-endian bytes
unsigned_fixed(def, slice, pos) ==
    IF slice.ok
    THEN OkAt(Data(def, from_le_bytes(slice.data), <<>>), pos + SizeOf(def))
    ELSE slice

\* Unsigned integer: compact under the compact flag, fixed-width otherwise
decode_unsigned(def, data, pos, checker) ==
    IF checker.compact_at # NoId
    THEN unsigned_compact(def, get_compact_at(data, pos, 8 * SizeOf(def)))
    ELSE unsigned_fixed(def, read_slice(data, pos, SizeOf(def)), pos)

\* a bool from its byte: 0 or 1
bool_of(byte, pos) ==
    IF ~byte.ok THEN byte
    ELSE IF byte.data \in {0, 1} THEN OkAt(Data("Bool", byte.data, <<>>), pos + 1)
    ELSE ErrOf(Error("TypeFailure.bool", pos, 0))

\* bool: never inside a compact, one byte
decode_bool(data, pos, checker) ==
    IfOk(reject_compact(checker), bool_of(read_byte(data, pos), pos))

\* variant of `ty` with discriminant `index`, <<>> if there is none
pick_variant(ty, index) ==
    SelectSeq(ty.variants, LAMBDA v : v.index = index)

RECURSIVE decode_resolved(_, _, _, _, _)
RECURSIVE decode_with_type(_, _, _, _)
RECURSIVE decode_tuple_fields(_, _, _, _, _)
RECURSIVE decode_variant_fields(_, _, _, _, _)

\* decode_with_type, step 2 and on: the checker updated for the type
with_checker(updated, ty, id, data, pos) ==
    IF ~updated.ok THEN ErrOf(updated.err)
    ELSE decode_resolved(ty, id, data, pos, updated.checker)

\* decode_with_type, step 1 done: the type resolved or not
with_resolved(resolved, id, data, pos, checker) ==
    IF ~resolved.ok THEN ErrOf(resolved.err)
    ELSE with_checker(update_for_ty(checker, resolved.ty, id), resolved.ty,
                      id, data, pos)

\* decode_with_type for a type id: resolve, update the checker, dispatch
decode_with_type(id, data, pos, checker) ==
    with_resolved(resolve_ty(id), id, data, pos, checker)

\* a tuple field decoded as `r`: stop at its error or go on after it
tuple_next(r, fields, data, checker, acc) ==
    IF ~r.ok THEN r
    ELSE decode_tuple_fields(Tail(fields), data, r.pos, checker,
                             Append(acc, r.data))

\* tuple fields, each from the parent's checker; `acc` holds the decoded ones
decode_tuple_fields(fields, data, pos, checker, acc) ==
    IF fields = <<>> THEN OkAt(Data("Tuple", 0, acc), pos)
    ELSE tuple_next(decode_with_type(Head(fields), data, pos, checker),
                    fields, data, checker, acc)

\* a variant field decoded as `r`: stop at its error or go on after it
field_next(r, fields, data, checker, acc) ==
    IF ~r.ok THEN r
    ELSE decode_variant_fields(Tail(fields), data, r.pos, checker,
                               Append(acc, r.data))

\* a variant field with its for_field child of the parent's checker
field_child(child, ty, fields, data, pos, checker, acc) ==
    IF ~child.ok THEN ErrOf(child.err)
    ELSE field_next(decode_resolved(ty, Head(fields), data, pos,
                                    child.checker),
                    fields, data, checker, acc)

\* a variant field with its type resolved or not
field_resolved(resolved, fields, data, pos, checker, acc) ==
    IF ~resolved.ok THEN ErrOf(resolved.err)
    ELSE field_child(update_for_field(checker, None, Head(fields)),
                     resolved.ty, fields, data, pos, checker, acc)

\* variant fields in order; `acc` holds the decoded ones
decode_variant_fields(fields, data, pos, checker, acc) ==
    IF fields = <<>> THEN OkAt(Data("Fields", 0, acc), pos)
    ELSE field_resolved(resolve_ty(Head(fields)), fields, data, pos, checker,
                        acc)

\* the variant node once its fields are decoded; a call enum gives a Call
variant_data(ty, index, inner) ==
    IF ~inner.ok THEN inner
    ELSE OkAt(Data(IF ty.is_call THEN "Call" ELSE "Variant", index,
                   inner.data.fields), inner.pos)

\* the variant picked by the discriminant, if any; the cycle check is
\* dropped once the discriminant byte is consumed
variant_found(ty, found, index, data, pos, checker) ==
    IF found = <<>> THEN ErrOf(Error("UnexpectedEnumVariant", pos, 0))
    ELSE variant_data(ty, index,
            decode_variant_fields(found[1].fields, data, pos + 1,
                                  drop_cycle_check(checker), <<>>))

\* Variant: one discriminant byte `b`, then the fields of that variant
decode_variant(ty, b, data, pos, checker) ==
    IF ~b.ok THEN b
    ELSE variant_found(ty, pick_variant(ty, b.data), b.data, data, pos,
                       checker)

\* dispatch on the type definition
decode_resolved(ty, id, data, pos, checker) ==
    CASE ty.def \in {"U8", "U32"} -> decode_unsigned(ty.def, data, pos, checker)
      [] ty.def = "Bool" -> decode_bool(data, pos, checker)
      [] ty.def = "Tuple" ->
            IfOk(reject_compact(checker),
                 decode_tuple_fields(ty.fields, data, pos, checker, <<>>))
      [] ty.def = "Compact" ->
            IfOk(reject_compact(checker),
                 decode_with_type(ty.fields[1], data, pos,
                                  [checker EXCEPT !.compact_at = Some(id)]))
      [] ty.def = "Variant" ->
            IfOk(reject_compact(checker),
                 decode_variant(ty, read_byte(data, pos), data, pos, checker))

\* decode_as_type_at_position: decode_with_type with a new Propagated
decode_as_type_at_position(id, data, pos) ==
    decode_with_type(id, data, pos, Checker_new)

-----------------------------------------------------------------------------
(* Unchecked extrinsic: decode_as_unchecked_extrinsic *)

VERSION_LENGTH == 1
VERSION_MASK == 127
VERSION_UNSIGNED == 0

ADDRESS_INDICATOR == "Address"
SIGNATURE_INDICATOR == "Signature"
EXTRA_INDICATOR == "Extra"
CALL_INDICATOR == "Call"

\* bitwise and / not of bytes
RECURSIVE BitAnd(_, _)
BitAnd(x, y) ==
    IF x = 0 \/ y = 0 THEN 0
    ELSE (x % 2) * (y % 2) + 2 * BitAnd(x \div 2, y \div 2)
BitNot(x) == 255 - x

Param(name, ty) == [name |-> name, ty |-> ty]

\* the type of the last parameter called `name`, NoId if there is none
\* (the `for param in extrinsic_type_params.iter()` loops)
found_param(params, name) ==
    LET idx == {i \in 1..Len(params) : params[i].name = name}
    IN  IF idx = {} THEN NoId
        ELSE params[CHOOSE i \in idx : \A j \in idx : j <= i].ty

Ok_Unsigned(call) ==
    [tag |-> "Ok", kind |-> "Unsigned", call |-> call]
Ok_Signed(address, signature, extra, call) ==
    [tag |-> "Ok", kind |-> "Signed", address |-> address,
     signature |-> signature, extra |-> extra, call |-> call]
Err(e) == [tag |-> "Err", error |-> e]

Attempt(elem, ty, from, r) ==
    [elem |-> elem, ty |-> ty, from |-> from, ok |-> r.ok,
     to |-> IF r.ok THEN r.pos ELSE from, data |-> r.data]

KeyVars ==
    <<hashers, key_ty, key_input, start_position, tuple_elements, content,
      reads>>

\* line 104: (extrinsic_start + extrinsic_length).cmp(&len)
cmp(x, y) == IF x > y THEN "Greater" ELSE IF x < y THEN "Less" ELSE "Equal"

\* frame_check that lets bytes after the frame pass
frame_check_lenient(start, length, len) ==
    IF cmp(start + length, len) = "Greater"
    THEN Err(Wrap("Parsing", Error("Buffer.DataTooShort", len,
                                   start + length - len)))
    ELSE NoResult

\* lines 104-121: the framed length against the length of the input
frame_check(start, length, len) ==
    CASE cmp(start + length, len) = "Greater" ->
            Err(Wrap("Parsing", Error("Buffer.DataTooShort", len,
                                      start + length - len)))
      [] cmp(start + length, len) = "Less" ->
            Err(Wrap("Parsing", Error("SomeDataNotUsedBlob", start + length,
                                      0)))
      [] OTHER -> NoResult

\* lines 100-121 once get_compact has returned `c`
TakePrefix(c) ==
    IF ~c.ok
    THEN /\ result' = Err(Plain("FormatNoCompact", 0, 0))
         /\ pc' = "done"
         /\ UNCHANGED <<extrinsic_start, extrinsic_length>>
    ELSE /\ extrinsic_start' = c.pos
         /\ extrinsic_length' = c.data.value
         /\ result' = frame_check(c.pos, c.data.value, total_len(input))
         /\ pc' = IF result' = NoResult THEN "version" ELSE "done"

\* lines 100-121: compact length, then the comparison with total_len
Prefix ==
    /\ pc = "start"
    /\ TakePrefix(get_compact_at(input, 0, 32))
    /\ UNCHANGED <<input, meta, position, version_byte, decoded, KeyVars,
                   Elsewhere>>

\* version_matches with a mask that also drops the lowest bit
version_matches_wrong_mask(byte, version) == BitAnd(byte, 126) = version

\* line 135: the version without the signed bit against the metadata's
version_matches(byte, version) == BitAnd(byte, VERSION_MASK) = version

\* is_unsigned looking at the lowest bit of the byte
is_unsigned_low_bit(byte) == BitAnd(byte, 1) = VERSION_UNSIGNED

\* line 140: the signed bit is not set
is_unsigned(byte) == BitAnd(byte, BitNot(VERSION_MASK)) = VERSION_UNSIGNED

\* lines 123-140, 167: version byte, version check, signed/unsigned split
ReadVersion ==
    /\ pc = "version"
    /\ LET b == read_byte(input, extrinsic_start)
           version == meta.version
       IN IF ~b.ok
          THEN /\ result' = Err(Wrap("Parsing", b.err))
               /\ pc' = "done"
               /\ UNCHANGED <<position, version_byte>>
          ELSE /\ version_byte' = <<b.data>>
               /\ position' = extrinsic_start + VERSION_LENGTH
               /\ IF ~version_matches(b.data, version)
                  THEN /\ result' = Err(Plain("VersionMismatch", b.data,
                                              version))
                       /\ pc' = "done"
                  ELSE IF is_unsigned(b.data)
                  THEN /\ result' = result
                       /\ pc' = "unsigned_call"
                  ELSE /\ result' = result
                       /\ pc' = "address"
    /\ UNCHANGED <<input, meta, extrinsic_start, extrinsic_length, decoded,
                   KeyVars,
                   Elsewhere>>

\* the outcome `r` of decoding the call: lines 153-166 and 213-231
TakeCall(r, call_ty, signed) ==
    /\ decoded' = Append(decoded, Attempt("call", call_ty, position, r))
    /\ IF ~r.ok
       THEN /\ result' = Err(Wrap("Parsing", r.err))
            /\ UNCHANGED position
       ELSE /\ position' = r.pos
            /\ IF r.data.kind = "Call"
               THEN result' = (IF signed
                               THEN Ok_Signed(decoded[1].data, decoded[2].data,
                                              decoded[3].data, r.data)
                               ELSE Ok_Unsigned(r.data))
               ELSE result' = Err(Plain("UnexpectedCallTy", call_ty, 0))

\* FindCall decoding from the start of the frame, the version byte included
FindCall_from_frame_start(found_call, missing, signed) ==
    IF found_call = NoId
    THEN /\ result' = Err(missing)
         /\ UNCHANGED <<position, decoded>>
    ELSE TakeCall(decode_as_type_at_position(found_call[1], input,
                                             extrinsic_start),
                  found_call[1], signed)

\* the call parameter, or the error of the branch when there is none
FindCall(found_call, missing, signed) ==
    IF found_call = NoId
    THEN /\ result' = Err(missing)
         /\ UNCHANGED <<position, decoded>>
    ELSE TakeCall(decode_as_type_at_position(found_call[1], input, position),
                  found_call[1], signed)

\* lines 141-166: the unsigned branch
DecodeUnsignedCall ==
    /\ pc = "unsigned_call"
    /\ FindCall(found_param(meta.params, CALL_INDICATOR),
                Wrap("Parsing", Error("ExtrinsicNoCallParam", 0, 0)), FALSE)
    /\ pc' = "done"
    /\ UNCHANGED <<input, meta, extrinsic_start, extrinsic_length,
                   version_byte, KeyVars,
                   Elsewhere>>

\* TakeElement that leaves the position where the element started
TakeElement_stay(r, elem, ty, next) ==
    /\ decoded' = Append(decoded, Attempt(elem, ty, position, r))
    /\ UNCHANGED position
    /\ IF ~r.ok
       THEN /\ result' = Err(Wrap("Parsing", r.err))
            /\ pc' = "done"
       ELSE /\ result' = result
            /\ pc' = next

\* the outcome `r` of decoding address, signature or extra
TakeElement(r, elem, ty, next) ==
    /\ decoded' = Append(decoded, Attempt(elem, ty, position, r))
    /\ IF ~r.ok
       THEN /\ result' = Err(Wrap("Parsing", r.err))
            /\ pc' = "done"
            /\ UNCHANGED position
       ELSE /\ position' = r.pos
            /\ result' = result
            /\ pc' = next

\* `found.ok_or(missing)?`, then the decode at the shared position
FindElement(found, elem, missing, next) ==
    IF found = NoId
    THEN /\ result' = Err(Plain(missing, 0, 0))
         /\ pc' = "done"
         /\ UNCHANGED <<position, decoded>>
    ELSE TakeElement(decode_as_type_at_position(found[1], input, position),
                     elem, found[1], next)

\* lines 185-192
DecodeAddress ==
    /\ pc = "address"
    /\ FindElement(found_param(meta.params, ADDRESS_INDICATOR), "address",
                   "NoAddressParam", "signature")
    /\ UNCHANGED <<input, meta, extrinsic_start, extrinsic_length,
                   version_byte, KeyVars,
                   Elsewhere>>

\* lines 194-201
DecodeSignature ==
    /\ pc = "signature"
    /\ FindElement(found_param(meta.params, SIGNATURE_INDICATOR), "signature",
                   "NoSignatureParam", "extra")
    /\ UNCHANGED <<input, meta, extrinsic_start, extrinsic_length,
                   version_byte, KeyVars,
                   Elsewhere>>

\* lines 203-210
DecodeExtra ==
    /\ pc = "extra"
    /\ FindElement(found_param(meta.params, EXTRA_INDICATOR), "extra",
                   "NoExtraParam", "call")
    /\ UNCHANGED <<input, meta, extrinsic_start, extrinsic_length,
                   version_byte, KeyVars,
                   Elsewhere>>

\* lines 212-231: the call of a signed extrinsic and the result
DecodeCall ==
    /\ pc = "call"
    /\ FindCall(found_param(meta.params, CALL_INDICATOR),
                Plain("NoCallParam", 0, 0), TRUE)
    /\ pc' = "done"
    /\ UNCHANGED <<input, meta, extrinsic_start, extrinsic_length,
                   version_byte, KeyVars,
                   Elsewhere>>

-----------------------------------------------------------------------------
(* Storage key: hashes and key parts *)

BLAKE2_128_LEN == 16
BLAKE2_256_LEN == 32
TWOX128_LEN == 16
TWOX256_LEN == 32
TWOX64_LEN == 8

RECURSIVE WeightedSum(_, _, _)
WeightedSum(bytes, i, j) ==
    IF j > Len(bytes) THEN 0
    ELSE (i + j) * bytes[j] + WeightedSum(bytes, i, j + 1)

\* A deterministic function of all the bytes and of their number, standing
\* for the hash primitives: byte i of the hash depends on every input byte.
Digest(bytes, len, salt) ==
    [i \in 1..len |->
        (salt + i * (Len(bytes) + 1) + WeightedSum(bytes, i, 1)) % 256]

\* sp_core_hashing::blake2_128
blake2_128(bytes) == Digest(bytes, BLAKE2_128_LEN, 11)

\* sp_core_hashing::twox_64
twox_64(bytes) == Digest(bytes, TWOX64_LEN, 29)

\* KeyPart::Hash(HashData { hash: Hash::variant(bytes), type_id })
KeyPart_Hash(variant, bytes, type_id) ==
    [kind |-> "Hash", variant |-> variant, hash |-> bytes,
     type_id |-> type_id, data |-> NoData]

\* KeyPart::Parsed(data)
KeyPart_Parsed(data) ==
    [kind |-> "Parsed", variant |-> None, hash |-> <<>>, type_id |-> 0,
     data |-> data]

NoPart == [kind |-> "NoPart", variant |-> None, hash |-> <<>>, type_id |-> 0,
           data |-> NoData]

\* what a key part processing returns: Ok(part) with the new position or
\* Err(StorageError); `log` lists its buffer reads and its typed decode
PartOk(part, pos, log) ==
    [ok |-> TRUE, part |-> part, pos |-> pos, err |-> Plain("None", 0, 0),
     log |-> log]
PartErr(e, log) ==
    [ok |-> FALSE, part |-> NoPart, pos |-> 0, err |-> e, log |-> log]

Read(pos, len) == [op |-> "read_slice", pos |-> pos, len |-> len]
Decode(pos, ty) == [op |-> "decode", pos |-> pos, len |-> ty]

\* cut_hash that tags the hash with the id 0 whatever the key type
cut_hash_untagged(hash_len, enum_variant, ty, data, pos) ==
    LET slice == read_slice(data, pos, hash_len)
    IN  IF ~slice.ok
        THEN PartErr(Wrap("ParsingKey", slice.err), <<Read(pos, hash_len)>>)
        ELSE PartOk(KeyPart_Hash(enum_variant, slice.data, 0),
                    pos + hash_len, <<Read(pos, hash_len)>>)

\* cut_hash that moves the position whether or not the hash could be read
cut_hash_unread(hash_len, enum_variant, ty, data, pos) ==
    LET slice == read_slice(data, pos, hash_len)
    IN  PartOk(KeyPart_Hash(enum_variant,
                            IF slice.ok THEN slice.data ELSE <<>>, ty),
               pos + hash_len, <<Read(pos, hash_len)>>)

\* macro cut_hash: a hash of known length, nothing decoded
cut_hash(hash_len, enum_variant, ty, data, pos) ==
    LET slice == read_slice(data, pos, hash_len)
    IN  IF ~slice.ok
        THEN PartErr(Wrap("ParsingKey", slice.err), <<Read(pos, hash_len)>>)
        ELSE PartOk(KeyPart_Hash(enum_variant, slice.data, ty),
                    pos + hash_len, <<Read(pos, hash_len)>>)

cut_blake2_128(ty, data, pos) ==
    cut_hash(BLAKE2_128_LEN, "Blake2_128", ty, data, pos)
cut_blake2_256(ty, data, pos) ==
    cut_hash(BLAKE2_256_LEN, "Blake2_256", ty, data, pos)
cut_twox_128(ty, data, pos) ==
    cut_hash(TWOX128_LEN, "Twox128", ty, data, pos)
cut_twox_256(ty, data, pos) ==
    cut_hash(TWOX256_LEN, "Twox256", ty, data, pos)

\* the hash function named in a check_hash! instance
fn_into(name, bytes) ==
    IF name = "blake2_128" THEN blake2_128(bytes) ELSE twox_64(bytes)

\* compare_hash hashing every byte from the value to the end of the key
compare_hash_whole_tail(hash_part, parsed_key, fn, data, starts, log) ==
    IF hash_part # fn_into(fn, SubSeq(data, starts + 1, Len(data)))
    THEN PartErr(Plain("KeyPartHashMismatch", 0, 0), log)
    ELSE PartOk(KeyPart_Parsed(parsed_key.data), parsed_key.pos, log)

\* check_hash, lines 265-280: the bytes of the decoded value hashed and
\* compared with the hash found in the key
compare_hash(hash_part, parsed_key, fn, data, position_decoder_starts, log) ==
    LET reread == read_slice(data, position_decoder_starts,
                             parsed_key.pos - position_decoder_starts)
        log3 == Append(log, Read(position_decoder_starts,
                                 parsed_key.pos - position_decoder_starts))
    IN  IF ~reread.ok
        THEN PartErr(Plain("panic: positions checked, valid slice", 0, 0),
                     log3)
        ELSE IF hash_part # fn_into(fn, reread.data)
        THEN PartErr(Plain("KeyPartHashMismatch", 0, 0), log3)
        ELSE PartOk(KeyPart_Parsed(parsed_key.data), parsed_key.pos, log3)

\* hash_parsed that compares the hash with the rest of the key before it
\* looks at the outcome of the decode
hash_parsed_hash_first(hash_part, parsed_key, fn, data, position_decoder_starts, log) ==
    IF /\ ~parsed_key.ok
       /\ hash_part # fn_into(fn, SubSeq(data, position_decoder_starts + 1,
                                         Len(data)))
    THEN PartErr(Plain("KeyPartHashMismatch", 0, 0), log)
    ELSE IF ~parsed_key.ok
    THEN PartErr(Wrap("ParsingKey", parsed_key.err), log)
    ELSE compare_hash(hash_part, parsed_key, fn, data,
                      position_decoder_starts, log)

\* check_hash, lines 256-264: the outcome of the typed decode
hash_parsed(hash_part, parsed_key, fn, data, position_decoder_starts, log) ==
    IF ~parsed_key.ok THEN PartErr(Wrap("ParsingKey", parsed_key.err), log)
    ELSE compare_hash(hash_part, parsed_key, fn, data,
                      position_decoder_starts, log)

\* macro check_hash: a hash of known length, then the decoded value, whose
\* bytes are hashed and compared with the hash found in the key
check_hash(hash_len, fn, ty, data, pos) ==
    LET slice == read_slice(data, pos, hash_len)
        position_decoder_starts == pos + hash_len
    IN  IF ~slice.ok
        THEN PartErr(Wrap("ParsingKey", slice.err), <<Read(pos, hash_len)>>)
        ELSE hash_parsed(slice.data,
                decode_with_type(ty, data, position_decoder_starts,
                                 Checker_new),
                fn, data, position_decoder_starts,
                <<Read(pos, hash_len), Decode(position_decoder_starts, ty)>>)

check_blake2_128(ty, data, pos) ==
    check_hash(BLAKE2_128_LEN, "blake2_128", ty, data, pos)
check_twox_64(ty, data, pos) ==
    check_hash(TWOX64_LEN, "twox_64", ty, data, pos)

\* the outcome of the typed decode of an Identity key part
identity_parsed(parsed_key, log) ==
    IF ~parsed_key.ok THEN PartErr(Wrap("ParsingKey", parsed_key.err), log)
    ELSE PartOk(KeyPart_Parsed(parsed_key.data), parsed_key.pos, log)

\* StorageHasher::Identity arm: the value alone, decoded
identity_part(ty, data, pos) ==
    identity_parsed(decode_with_type(ty, data, pos, Checker_new),
                    <<Decode(pos, ty)>>)

StorageHashers ==
    {"Blake2_128", "Blake2_256", "Blake2_128Concat", "Twox128", "Twox256",
     "Twox64Concat", "Identity"}

\* `match hashers[index]` of process_key_mapped, both occurrences
match_hasher(hasher, ty, data, pos) ==
    CASE hasher = "Blake2_128" -> cut_blake2_128(ty, data, pos)
      [] hasher = "Blake2_256" -> cut_blake2_256(ty, data, pos)
      [] hasher = "Blake2_128Concat" -> check_blake2_128(ty, data, pos)
      [] hasher = "Twox128" -> cut_twox_128(ty, data, pos)
      [] hasher = "Twox256" -> cut_twox_256(ty, data, pos)
      [] hasher = "Twox64Concat" -> check_twox_64(ty, data, pos)
      [] hasher = "Identity" -> identity_part(ty, data, pos)

-----------------------------------------------------------------------------
(* Storage key: process_key_mapped *)

\* KeyData::SingleHash { content } (content held as a one-element list) and
\* KeyData::TupleHash { content, info }; info is kept as the key type id
Ok_SingleHash(part) ==
    [tag |-> "Ok", kind |-> "SingleHash", content |-> <<part>>,
     info |-> NoId]
Ok_TupleHash(parts, info) ==
    [tag |-> "Ok", kind |-> "TupleHash", content |-> parts, info |-> info]

ExtrinsicVars ==
    <<input, meta, extrinsic_start, extrinsic_length, version_byte, decoded>>
KeyArgs == <<hashers, key_ty, key_input, start_position>>

\* a key part processed as `r`: its error returned (`?`), or the part kept
\* and the position moved
TakePart(r, next) ==
    /\ reads' = reads \o r.log
    /\ IF ~r.ok
       THEN /\ result' = Err(r.err)
            /\ pc' = "done"
            /\ UNCHANGED <<position, content>>
       ELSE /\ position' = r.pos
            /\ content' = Append(content, r.part)
            /\ result' = result
            /\ pc' = next

\* lines 309-355: one hasher, applied to the key type itself
KeySingle ==
    /\ pc = "key_start"
    /\ Len(hashers) = 1
    /\ TakePart(match_hasher(hashers[1], key_ty, key_input, position),
                "key_check")
    /\ UNCHANGED <<tuple_elements, KeyArgs, ExtrinsicVars,
                   Elsewhere>>

\* KeyTuple that takes the tuple fields without counting them
KeyTuple_count_unchecked ==
    /\ pc = "key_start"
    /\ Len(hashers) # 1
    /\ LET key_ty_resolved == resolve_ty(key_ty)
       IN IF ~key_ty_resolved.ok
          THEN /\ result' = Err(Wrap("ParsingKey", key_ty_resolved.err))
               /\ pc' = "done"
               /\ UNCHANGED tuple_elements
          ELSE IF key_ty_resolved.ty.def # "Tuple"
          THEN /\ result' = Err(Plain("MultipleHashesNotATuple", 0, 0))
               /\ pc' = "done"
               /\ UNCHANGED tuple_elements
          ELSE /\ tuple_elements' = key_ty_resolved.ty.fields
               /\ result' = result
               /\ pc' = "key_parts"
    /\ UNCHANGED <<position, content, reads, KeyArgs, ExtrinsicVars,
                   Elsewhere>>

\* lines 356-367, 426: several hashers (or none), the key type resolved
KeyTuple ==
    /\ pc = "key_start"
    /\ Len(hashers) # 1
    /\ LET key_ty_resolved == resolve_ty(key_ty)
       IN IF ~key_ty_resolved.ok
          THEN /\ result' = Err(Wrap("ParsingKey", key_ty_resolved.err))
               /\ pc' = "done"
               /\ UNCHANGED tuple_elements
          ELSE IF key_ty_resolved.ty.def # "Tuple"
          THEN /\ result' = Err(Plain("MultipleHashesNotATuple", 0, 0))
               /\ pc' = "done"
               /\ UNCHANGED tuple_elements
          ELSE IF Len(key_ty_resolved.ty.fields) # Len(hashers)
          THEN /\ result' = Err(Plain("MultipleHashesNumberMismatch", 0, 0))
               /\ pc' = "done"
               /\ UNCHANGED tuple_elements
          ELSE /\ tuple_elements' = key_ty_resolved.ty.fields
               /\ result' = result
               /\ pc' = "key_parts"
    /\ UNCHANGED <<position, content, reads, KeyArgs, ExtrinsicVars,
                   Elsewhere>>

\* KeyTuplePart taking the hashers from the last one down
KeyTuplePart_reversed ==
    /\ pc = "key_parts"
    /\ Len(content) < Len(tuple_elements)
    /\ TakePart(match_hasher(hashers[Len(hashers) - Len(content)],
                             tuple_elements[Len(content) + 1], key_input,
                             position),
                "key_parts")
    /\ UNCHANGED <<tuple_elements, KeyArgs, ExtrinsicVars,
                   Elsewhere>>

\* lines 368-423: one turn of `for index in 0..tuple_elements.len()`
KeyTuplePart ==
    /\ pc = "key_parts"
    /\ Len(content) < Len(tuple_elements)
    /\ TakePart(match_hasher(hashers[Len(content) + 1],
                             tuple_elements[Len(content) + 1], key_input,
                             position),
                "key_parts")
    /\ UNCHANGED <<tuple_elements, KeyArgs, ExtrinsicVars,
                   Elsewhere>>

\* line 424: the loop is over
KeyTupleDone ==
    /\ pc = "key_parts"
    /\ Len(content) = Len(tuple_elements)
    /\ pc' = "key_check"
    /\ UNCHANGED <<position, content, reads, result, tuple_elements, KeyArgs,
                   ExtrinsicVars,
                   Elsewhere>>

\* KeyCheck that returns the key data whatever the position
KeyCheck_unchecked ==
    /\ pc = "key_check"
    /\ result' = (IF Len(hashers) = 1 THEN Ok_SingleHash(content[1])
                  ELSE Ok_TupleHash(content, Some(key_ty)))
    /\ pc' = "done"
    /\ UNCHANGED <<position, content, reads, tuple_elements, KeyArgs,
                   ExtrinsicVars,
                   Elsewhere>>

\* lines 430-434: the whole key must have been used
KeyCheck ==
    /\ pc = "key_check"
    /\ IF position = total_len(key_input)
       THEN result' = (IF Len(hashers) = 1 THEN Ok_SingleHash(content[1])
                       ELSE Ok_TupleHash(content, Some(key_ty)))
       ELSE result' = Err(Plain("KeyPartsUnused", 0, 0))
    /\ pc' = "done"
    /\ UNCHANGED <<position, content, reads, tuple_elements, KeyArgs,
                   ExtrinsicVars,
                   Elsewhere>>

-----------------------------------------------------------------------------
(* Inputs of decode_as_unchecked_extrinsic *)

BodyBytes == {0, 1, 2}
Bodies == UNION {[1..n -> BodyBytes] : n \in 0..MaxBody}
VersionBytes == {4, 5, 132, 133}

\* a framed input: the length prefix is right (1), short (0) or long (2)
Framed == {<<p, v, b>> : p \in {0, 1, 2}, v \in VersionBytes, b \in Bodies}

\* framed extrinsics, and inputs that are no frame at all: nothing, a length
\* alone, a two-byte compact of 64, bytes that hold no compact
Inputs ==
    {<<4 * (Len(f[3]) + f[1])>> \o <<f[2]>> \o f[3] : f \in Framed}
        \cup {<<>>, <<0>>, <<4>>, <<1>>, <<1, 1, 4>>, <<1, 0, 4>>, <<3, 4>>}

\* the four named parameters, each present or not, in declaration order
NamedParams(present, call_ty) ==
    (IF ADDRESS_INDICATOR \in present
     THEN <<Param(ADDRESS_INDICATOR, Some(T_u8))>> ELSE <<>>) \o
    (IF SIGNATURE_INDICATOR \in present
     THEN <<Param(SIGNATURE_INDICATOR, Some(T_bool))>> ELSE <<>>) \o
    (IF EXTRA_INDICATOR \in present
     THEN <<Param(EXTRA_INDICATOR, Some(T_compact))>> ELSE <<>>) \o
    (IF CALL_INDICATOR \in present
     THEN <<Param(CALL_INDICATOR, Some(call_ty))>> ELSE <<>>)

AllNames ==
    {ADDRESS_INDICATOR, SIGNATURE_INDICATOR, EXTRA_INDICATOR, CALL_INDICATOR}

ParamLists ==
    {NamedParams(AllNames \ missing, T_call) :
        missing \in {{}, {ADDRESS_INDICATOR}, {SIGNATURE_INDICATOR},
                     {EXTRA_INDICATOR}, {CALL_INDICATOR},
                     {ADDRESS_INDICATOR, SIGNATURE_INDICATOR},
                     {SIGNATURE_INDICATOR, CALL_INDICATOR},
                     AllNames \ {CALL_INDICATOR}, AllNames}}
    \cup {NamedParams(AllNames, T_u8), NamedParams({CALL_INDICATOR}, T_u8),
          \* an unrelated parameter and a repeated name: the last one counts
          <<Param("Other", Some(T_bool))>> \o NamedParams(AllNames, T_u8)
              \o <<Param(CALL_INDICATOR, Some(T_call))>>,
          \* a parameter without a type
          NamedParams(AllNames, T_call) \o <<Param(CALL_INDICATOR, NoId)>>}

Metas ==
    [version : {4}, params : ParamLists]
        \cup [version : {5}, params : {NamedParams(AllNames, T_call)}]

\* decode_as_storage_entry, the carrier and the compact search not in use
EntryIdle ==
    /\ entry = NoEntry
    /\ value_input = <<>>
    /\ entry_stage = "none"
    /\ key = NoKey
CheckerIdle ==
    /\ parent = NoChecker
    /\ current = NoChecker
    /\ sibling = NoChecker
    /\ collected = <<>>
    /\ last = NoCall
CommonsIdle ==
    /\ data_vec = <<>>
    /\ called = [fn |-> "none", ty |-> "none", is_compact |-> FALSE]
VersionIdle ==
    /\ pallets = <<>>
    /\ runtime_version = NoResult

KeyIdle ==
    /\ hashers = <<>>
    /\ key_ty = T_u8
    /\ key_input = <<>>
    /\ start_position = 0
    /\ tuple_elements = <<>>
    /\ content = <<>>
    /\ reads = <<>>

Init ==
    /\ pc = "start"
    /\ input \in Inputs
    /\ meta \in Metas
    /\ position = 0
    /\ extrinsic_start = 0
    /\ extrinsic_length = 0
    /\ version_byte = NotRead
    /\ decoded = <<>>
    /\ result = NoResult
    /\ KeyIdle
    /\ EntryIdle /\ CheckerIdle /\ CommonsIdle /\ VersionIdle

Next ==
    \/ Prefix
    \/ ReadVersion
    \/ DecodeUnsignedCall
    \/ DecodeAddress
    \/ DecodeSignature
    \/ DecodeExtra
    \/ DecodeCall

Spec == Init /\ [][Next]_vars

-----------------------------------------------------------------------------
(* Inputs of process_key_mapped *)

\* the byte with one bit flipped
FlipBit(byte, bit) ==
    IF (byte \div (2 ^ bit)) % 2 = 1 THEN byte - 2 ^ bit ELSE byte + 2 ^ bit

\* the hash with one bit of one byte flipped
Flip(hash, i, bit) == [hash EXCEPT ![i] = FlipBit(@, bit)]

Fill(len) == [i \in 1..len |-> (3 * i) % 256]

HashOf(hasher, value) ==
    IF hasher = "Blake2_128Concat" THEN blake2_128(value) ELSE twox_64(value)

HashLen(hasher) ==
    CASE hasher \in {"Blake2_128", "Blake2_128Concat"} -> BLAKE2_128_LEN
      [] hasher = "Blake2_256" -> BLAKE2_256_LEN
      [] hasher = "Twox128" -> TWOX128_LEN
      [] hasher = "Twox256" -> TWOX256_LEN
      [] hasher = "Twox64Concat" -> TWOX64_LEN
      [] OTHER -> 0

ConcatHashers == {"Blake2_128Concat", "Twox64Concat"}

\* the bytes a key may hold for one hasher: a hash, a hash of the value (or
\* that hash with the first bit flipped) followed by the value, or the value
Chunks(hasher) ==
    IF hasher \in ConcatHashers
    THEN {HashOf(hasher, <<1>>) \o <<1>>, HashOf(hasher, <<2>>) \o <<2>>,
          Flip(HashOf(hasher, <<1>>), 1, 0) \o <<1>>}
    ELSE IF hasher = "Identity" THEN {<<1>>, <<2>>}
    ELSE {Fill(HashLen(hasher))}

RECURSIVE KeyBodies(_)
KeyBodies(hs) ==
    IF hs = <<>> THEN {<<>>}
    ELSE {c \o rest : c \in Chunks(Head(hs)), rest \in KeyBodies(Tail(hs))}

\* more values and more flipped bits, for the keys of one concat hasher
SingleBodies(hasher) ==
    LET values == {<<0>>, <<1, 1>>, <<0, 1>>, <<>>}
        n == HashLen(hasher)
        flips == {<<1, 7>>, <<n, 0>>, <<n, 7>>, <<n \div 2, 3>>}
    IN  {HashOf(hasher, v) \o v : v \in values}
        \cup {Flip(HashOf(hasher, v), f[1], f[2]) \o v :
                v \in values, f \in flips}

\* the body as it is, with one more byte, and without its last byte
Tails(body) ==
    {body, body \o <<0>>}
        \cup (IF body = <<>> THEN {} ELSE {SubSeq(body, 1, Len(body) - 1)})

HasherLists == UNION {[1..n -> StorageHashers] : n \in 0..MaxHashers}

KeyTypes == {T_u8, T_bool, T_pair, T_unit, T_triple, T_missing}

StartPositions == {0, 2 * TWOX128_LEN}

\* the keys tried with a hasher list, from the start position on
KeyBodiesFor(hs) ==
    UNION {Tails(body) :
            body \in KeyBodies(hs) \cup
                     (IF Len(hs) = 1 /\ hs[1] \in ConcatHashers
                      THEN SingleBodies(hs[1]) ELSE {})}

ExtrinsicIdle ==
    /\ input = <<>>
    /\ meta = [version |-> 4, params |-> <<>>]
    /\ extrinsic_start = 0
    /\ extrinsic_length = 0
    /\ version_byte = NotRead
    /\ decoded = <<>>

InitKey ==
    /\ pc = "key_start"
    /\ hashers \in HasherLists
    /\ start_position \in StartPositions
    /\ position = start_position
    /\ key_input \in {Fill(start_position) \o b : b \in KeyBodiesFor(hashers)}
    /\ key_ty \in KeyTypes
    /\ tuple_elements = <<>>
    /\ content = <<>>
    /\ reads = <<>>
    /\ result = NoResult
    /\ ExtrinsicIdle
    /\ EntryIdle /\ CheckerIdle /\ CommonsIdle /\ VersionIdle

NextKey ==
    \/ KeySingle
    \/ KeyTuple
    \/ KeyTuplePart
    \/ KeyTupleDone
    \/ KeyCheck

SpecKey == InitKey /\ [][NextKey]_vars

-----------------------------------------------------------------------------
(* Storage entry: decode_as_storage_entry *)

\* decode_all_as_type: the typed decode from position 0; the whole blob
\* must be used
all_used(r, len) ==
    IF ~r.ok THEN r
    ELSE IF r.pos # len THEN ErrOf(Error("SomeDataNotUsedBlob", r.pos, 0))
    ELSE r
decode_all_as_type(ty, blob) ==
    all_used(decode_as_type_at_position(ty, blob, 0), total_len(blob))

\* StorageEntryType::Plain(value_ty) and StorageEntryType::Map {..}, whose
\* hashers and key type are held in `hashers` and `key_ty`
Entry(kind, value_ty) == [kind |-> kind, value_ty |-> value_ty, docs |-> "docs"]

KeyData_Plain == [tag |-> "Ok", kind |-> "Plain", content |-> <<>>,
                  info |-> NoId]

\* Ok(Storage { key, value, docs })
Ok_Storage(k, value, docs) ==
    [tag |-> "Ok", kind |-> "Storage", key |-> k, value |-> value,
     docs |-> docs]

EntryArgs == <<entry, value_input, hashers, key_ty, key_input, start_position>>

\* prefix_check that lets a Plain key run past the prefix
prefix_check_lenient(kind, after_prefix, len) ==
    IF after_prefix > len THEN Err(Plain("KeyShorterThanPrefix", 0, 0))
    ELSE NoResult

\* lines 154-163: the key against the prefix length, for the kind of entry
prefix_check(kind, after_prefix, len) ==
    IF after_prefix > len THEN Err(Plain("KeyShorterThanPrefix", 0, 0))
    ELSE IF kind = "Plain" /\ after_prefix # len
    THEN Err(Plain("PlainKeyExceedsPrefix", 0, 0))
    ELSE NoResult

\* lines 152-181: the prefix, then the value of a Plain entry or the key of
\* a Map entry
EntryPrefix ==
    /\ pc = "entry_start"
    /\ result' = prefix_check(entry.kind, 2 * TWOX128_LEN,
                              total_len(key_input))
    /\ IF result' # NoResult
       THEN /\ pc' = "done"
            /\ entry_stage' = "returned"
            /\ UNCHANGED <<key, position>>
       ELSE IF entry.kind = "Plain"
       THEN /\ key' = KeyData_Plain
            /\ pc' = "entry_value"
            /\ entry_stage' = "value"
            /\ UNCHANGED position
       ELSE /\ position' = 2 * TWOX128_LEN
            /\ pc' = "key_start"
            /\ entry_stage' = "key"
            /\ UNCHANGED key
    /\ UNCHANGED <<EntryArgs, tuple_elements, content, reads, ExtrinsicVars,
                   CheckerVars, CommonsVars,
                   VersionVars>>

key_failed_never(r) == FALSE

\* line 181: `?` on what process_key_mapped returned
key_failed(r) == r.tag = "Err"

\* lines 174-181: process_key_mapped has returned; `?` on its result
EntryKeyReturned ==
    /\ pc = "done"
    /\ entry_stage = "key"
    /\ IF key_failed(result)
       THEN /\ entry_stage' = "returned"
            /\ UNCHANGED <<result, pc, key>>
       ELSE /\ key' = result
            /\ result' = NoResult
            /\ pc' = "entry_value"
            /\ entry_stage' = "value"
    /\ UNCHANGED <<EntryArgs, position, tuple_elements, content, reads,
                   ExtrinsicVars, CheckerVars, CommonsVars,
                   VersionVars>>

\* the value decoded as `r`: its error as ParsingValue, or the Storage
TakeValue(r) ==
    IF ~r.ok THEN Err(Wrap("ParsingValue", r.err))
    ELSE Ok_Storage(key, r.data, entry.docs)

\* entry_value by the typed decode alone
entry_value_partial(value_ty, blob) ==
    decode_as_type_at_position(value_ty, blob, 0)

\* the value of the entry decoded whole, lines 164 and 182
entry_value(value_ty, blob) == decode_all_as_type(value_ty, blob)

\* lines 164-166, 182-187: the value, then Ok(Storage { key, value, docs })
EntryValue ==
    /\ pc = "entry_value"
    /\ result' = TakeValue(entry_value(entry.value_ty, value_input))
    /\ pc' = "done"
    /\ entry_stage' = "returned"
    /\ UNCHANGED <<EntryArgs, key, position, tuple_elements, content, reads,
                   ExtrinsicVars, CheckerVars, CommonsVars,
                   VersionVars>>

(* Inputs of decode_as_storage_entry *)

\* longest storage value
MaxValue == 3

ValueBytes_ == {0, 1, 2}
Values == UNION {[1..n -> ValueBytes_] : n \in 0..MaxValue}

ValueTypes ==
    {T_u8, T_bool, T_pair, T_unit, T_compact, T_u32, T_call, T_triple,
     T_missing, T_self, T_ping, T_pong, T_outer, T_list, T_compact_self}

\* a prefix of bytes that are no hash of any pallet or storage name
OtherFill(len) == [i \in 1..len |-> (7 * i + 1) % 256]

\* keys of a Plain entry: the prefix alone, cut short, or with bytes after
PlainKeys ==
    {Fill(n) : n \in {0, 2 * TWOX128_LEN - 1, 2 * TWOX128_LEN,
                      2 * TWOX128_LEN + 1, 2 * TWOX128_LEN + BLAKE2_128_LEN}}
        \cup {OtherFill(2 * TWOX128_LEN)}

\* hasher lists of the Map entries tried
EntryHasherLists ==
    {<<"Twox64Concat">>, <<"Blake2_128">>, <<"Identity", "Blake2_128Concat">>}

InitEntryPlain ==
    /\ entry \in {Entry("Plain", ty) : ty \in ValueTypes}
    /\ value_input \in Values
    /\ key_input \in PlainKeys
    /\ hashers = <<>>
    /\ key_ty = T_u8

InitEntryMap ==
    /\ entry \in {Entry("Map", ty) : ty \in {T_u8, T_pair}}
    /\ value_input \in {<<>>, <<1>>, <<1, 1>>, <<1, 1, 0>>}
    /\ hashers \in EntryHasherLists
    /\ key_ty \in {T_u8, T_pair}
    /\ key_input \in
        {Fill(2 * TWOX128_LEN) \o b : b \in KeyBodiesFor(hashers)}
            \cup {Fill(TWOX128_LEN)}

InitEntry ==
    /\ pc = "entry_start"
    /\ InitEntryPlain \/ InitEntryMap
    /\ start_position = 2 * TWOX128_LEN
    /\ position = 0
    /\ entry_stage = "start"
    /\ key = NoKey
    /\ tuple_elements = <<>>
    /\ content = <<>>
    /\ reads = <<>>
    /\ result = NoResult
    /\ ExtrinsicIdle
    /\ CheckerIdle /\ CommonsIdle /\ VersionIdle

NextEntry ==
    \/ EntryPrefix
    \/ KeySingle
    \/ KeyTuple
    \/ KeyTuplePart
    \/ KeyTupleDone
    \/ KeyCheck
    \/ EntryKeyReturned
    \/ EntryValue

SpecEntry == InitEntry /\ [][NextEntry]_vars

-----------------------------------------------------------------------------
(* The propagation carrier as a state machine: one step per method call *)

\* the call made last: method, type id argument, hint argument, outcome
Call(op, id, hint, ok, err) ==
    [op |-> op, id |-> id, hint |-> hint, ok |-> ok, err |-> err]

forget_hint_all(checker) ==
    [checker EXCEPT !.hint = None, !.compact_at = NoId]

\* SpecialtySet::forget_hint / Checker::forget_hint / Propagated::forget_hint
forget_hint(checker) == [checker EXCEPT !.hint = None]

\* Propagated::from_ext_meta, `ext_hint` being Hint::from_ext_meta
from_ext_meta(ext_hint) ==
    [compact_at |-> NoId, hint |-> ext_hint, cycle_check |-> <<>>]

\* what a call on `&Checker` leaves: the outcome `made` of the update, and
\* the borrowed Checker `borrowed` as it is after the call
Borrow(made, borrowed) ==
    [ok |-> made.ok, checker |-> made.checker, err |-> made.err,
     borrowed |-> borrowed]

for_ty_in_place(checker, ty, id) ==
    Borrow(update_for_ty(checker, ty, id),
           update_for_ty(checker, ty, id).checker)

\* Propagated::for_ty: the Checker of the new Propagated, its `info` empty
for_ty(checker, ty, id) == Borrow(update_for_ty(checker, ty, id), checker)

\* Propagated::for_field
for_field(checker, field_hint, id) ==
    Borrow(update_for_field(checker, field_hint, id), checker)

\* Info: docs and path, either of which may be absent
Info(docs, path) == [docs |-> docs, path |-> path]

\* Info::is_empty
is_empty(info_update) == info_update.docs = "" /\ info_update.path = ""

\* Propagated::add_info
add_info(info, info_update) ==
    IF ~is_empty(info_update) THEN Append(info, info_update) ELSE info

\* Propagated::add_info_slice
add_info_slice(info, info_update_slice) == info \o info_update_slice

\* longest `info`, and longest slice added at once
MaxInfo == 2
\* longest cycle_check
MaxDepth == 2

CarrierIds == {T_ping, T_pong}
Hints == {None, "Nonce", "Era"}
Infos == {Info(d, p) : d \in {"", "docs"}, p \in {"", "path"}}
InfoSlices == UNION {[1..n -> Infos] : n \in 0..MaxInfo}

OtherVars ==
    <<pc, position, result, ExtrinsicVars, KeyVars, EntryVars, CommonsVars,
      VersionVars>>

\* Propagated::new, Propagated::from_ext_meta: a fresh carrier
CarrierNew ==
    /\ pc = "carrier"
    /\ \E ext_hint \in Hints :
        /\ current' = from_ext_meta(ext_hint)
        /\ last' = Call("new", 0, ext_hint, TRUE, NoError)
    /\ parent' = NoChecker
    /\ sibling' = NoChecker
    /\ collected' = <<>>
    /\ UNCHANGED OtherVars

\* the Propagated built by for_ty or for_field from `parent`: the first one
\* built is `current`, a later one is `sibling`
Built(op, id, hint, r) ==
    /\ parent' = r.borrowed
    /\ IF ~r.ok THEN UNCHANGED <<current, sibling, collected>>
       ELSE IF current = NoChecker
       THEN current' = r.checker /\ collected' = <<>> /\ UNCHANGED sibling
       ELSE sibling' = r.checker /\ UNCHANGED <<current, collected>>
    /\ last' = Call(op, id, hint, r.ok, r.err)
    /\ UNCHANGED OtherVars

CarrierForTy ==
    \E id \in CarrierIds, path_hint \in Hints :
        /\ pc = "carrier"
        /\ parent # NoChecker
        /\ Built("for_ty", id, path_hint,
                 for_ty(parent, Ty("Tuple", <<>>, <<>>, path_hint, FALSE), id))

CarrierForField ==
    \E id \in CarrierIds, field_hint \in Hints :
        /\ pc = "carrier"
        /\ parent # NoChecker
        /\ Built("for_field", id, field_hint,
                 for_field(parent, field_hint, id))

\* the decoder goes one level down: the Checker of the current frame is the
\* one the next Propagated is built from
CarrierDescend ==
    /\ pc = "carrier"
    /\ current # NoChecker
    /\ Len(current.cycle_check) < MaxDepth
    /\ parent' = current
    /\ current' = NoChecker
    /\ sibling' = NoChecker
    /\ collected' = <<>>
    /\ last' = Call("descend", 0, None, TRUE, NoError)
    /\ UNCHANGED OtherVars

\* a method called on the Checker of the current frame
OnCurrent(checker, call) ==
    /\ current' = checker
    /\ last' = call
    /\ UNCHANGED <<parent, sibling, collected>>
    /\ UNCHANGED OtherVars

CarrierCheckId ==
    \E id \in CarrierIds :
        /\ pc = "carrier"
        /\ current # NoChecker
        /\ Len(current.cycle_check) < MaxDepth \/ InSeq(id, current.cycle_check)
        /\ OnCurrent(check_id(current, id).checker,
                     Call("check_id", id, None, check_id(current, id).ok,
                          check_id(current, id).err))

CarrierUpdateFromPath ==
    \E path_hint \in Hints :
        /\ pc = "carrier"
        /\ current # NoChecker
        /\ OnCurrent(update_from_path(current, path_hint),
                     Call("update_from_path", 0, path_hint, TRUE, NoError))

CarrierForgetHint ==
    /\ pc = "carrier"
    /\ current # NoChecker
    /\ OnCurrent(forget_hint(current),
                 Call("forget_hint", 0, None, TRUE, NoError))

CarrierDropCycleCheck ==
    /\ pc = "carrier"
    /\ current # NoChecker
    /\ OnCurrent(drop_cycle_check(current),
                 Call("drop_cycle_check", 0, None, TRUE, NoError))

\* the decoder at a Compact type `id`: reject_compact, then
\* `compact_at = Some(id)` in the same carrier
CarrierSetCompact ==
    \E id \in CarrierIds :
        /\ pc = "carrier"
        /\ current # NoChecker
        /\ reject_compact(current).ok
        /\ OnCurrent([current EXCEPT !.compact_at = Some(id)],
                     Call("set_compact", id, None, TRUE, NoError))

InitChecker ==
    /\ pc = "carrier"
    /\ position = 0
    /\ result = NoResult
    /\ parent = NoChecker
    /\ current = Checker_new
    /\ sibling = NoChecker
    /\ collected = <<>>
    /\ last = Call("new", 0, None, TRUE, NoError)
    /\ ExtrinsicIdle /\ KeyIdle /\ EntryIdle /\ CommonsIdle /\ VersionIdle

NextChecker ==
    \/ CarrierNew
    \/ CarrierForTy
    \/ CarrierForField
    \/ CarrierDescend
    \/ CarrierCheckId
    \/ CarrierUpdateFromPath
    \/ CarrierForgetHint
    \/ CarrierDropCycleCheck
    \/ CarrierSetCompact

SpecChecker == InitChecker /\ [][NextChecker]_vars

\* Propagated::add_info and add_info_slice on the `info` of the current frame
CarrierAddInfo ==
    /\ pc = "carrier"
    /\ current # NoChecker
    /\ Len(collected) < MaxInfo
    /\ \E info_update \in Infos :
        /\ collected' = add_info(collected, info_update)
        /\ last' = Call("add_info", 0, None, TRUE, NoError)
    /\ UNCHANGED <<parent, current, sibling>>
    /\ UNCHANGED OtherVars

CarrierAddInfoSlice ==
    /\ pc = "carrier"
    /\ current # NoChecker
    /\ \E info_update_slice \in InfoSlices :
        /\ Len(collected) + Len(info_update_slice) <= MaxInfo
        /\ collected' = add_info_slice(collected, info_update_slice)
        /\ last' = Call("add_info_slice", 0, None, TRUE, NoError)
    /\ UNCHANGED <<parent, current, sibling>>
    /\ UNCHANGED OtherVars

\* the carrier with its `info`: fresh carriers, children, and additions
NextInfo ==
    \/ CarrierNew
    \/ CarrierForTy
    \/ CarrierForField
    \/ CarrierDescend
    \/ CarrierAddInfo
    \/ CarrierAddInfoSlice

SpecInfo == InitChecker /\ [][NextInfo]_vars

-----------------------------------------------------------------------------
(* decoding_commons.rs: the compact search on a byte vector *)

\* ParserError::Decoding(ParserDecodingError::..)
Decoding(kind) == [kind |-> "Decoding", a |-> 0, b |-> 0, inner |-> kind]

\* Ok(CutCompact { compact_found, start_next_unit })
Ok_CutCompact(compact_found, start_next_unit) ==
    [tag |-> "Ok", compact_found |-> compact_found,
     start_next_unit |-> start_next_unit]

\* size_of::<T>() of the types decoded here
size_of(ty) ==
    CASE ty \in {"bool", "i8", "u8"} -> 1
      [] ty \in {"i16", "u16", "PerU16"} -> 2
      [] ty \in {"u32", "char"} -> 4
      [] ty \in {"BigUint", "BigInt"} -> 32

\* the types with HasCompact: unsigned integers and per-things
Unsigned == {"u8", "u16", "u32"}
PerThings == {"PerU16"}
\* the types of impl_block_compact
Blocked == {"bool", "char", "i8", "i16", "BigInt", "BigUint"}

first_compact_longest(data, found, bits) ==
    IF found = {} THEN Err(Decoding("NoCompact"))
    ELSE LET i == CHOOSE k \in found : \A j \in found : k >= j
         IN  Ok_CutCompact(CompactDecode(SubSeq(data, 1, i + 1), bits).value,
                           IF Len(data) = i THEN NoId ELSE Some(i + 1))

\* lines 29-51: the shortest prefix data[..=i] that decodes as Compact<T>,
\* T of `bits` bits
first_compact(data, found, bits) ==
    IF found = {} THEN Err(Decoding("NoCompact"))
    ELSE LET i == CHOOSE k \in found : \A j \in found : k <= j
         IN  Ok_CutCompact(CompactDecode(SubSeq(data, 1, i + 1), bits).value,
                           IF Len(data) = i THEN NoId ELSE Some(i + 1))

\* cut_compact::<T>
cut_compact(data, bits) ==
    IF data = <<>> THEN Err(Decoding("DataTooShort"))
    ELSE first_compact(data,
                       {i \in 0..(Len(data) - 1) :
                           CompactDecode(SubSeq(data, 1, i + 1), bits).ok},
                       bits)

\* get_compact::<T>, lines 61-66: the data left once the compact is cut
data_after(cut, data) ==
    IF cut.tag = "Err" THEN data
    ELSE IF cut.start_next_unit = NoId THEN <<>>
    ELSE SubSeq(data, cut.start_next_unit[1] + 1, Len(data))

\* what a function given `data: &mut Vec<u8>` leaves: its result and the data
Taken(res, data) == [res |-> res, data |-> data]
Ok_Value(value) == [tag |-> "Ok", value |-> value]

\* get_compact::<T>
get_compact(ty, data, cut) ==
    IF cut.tag = "Err" THEN Taken(cut, data)
    ELSE Taken(Ok_Value(cut.compact_found), data_after(cut, data))

\* <T>::decode of a slice of size_of(T) bytes: little-endian, two's
\* complement for the signed types, 0 or 1 for bool
decode_le(ty, slice) ==
    LET v == from_le_bytes(slice)
        half == 2 ^ (8 * Len(slice) - 1)
    IN  CASE ty = "bool" -> [ok |-> v \in {0, 1}, value |-> v]
          [] ty \in {"i8", "i16"} ->
                [ok |-> TRUE, value |-> IF v >= half THEN v - 2 * half ELSE v]
          [] OTHER -> [ok |-> TRUE, value |-> v]

\* char::from_u32: a Unicode scalar value
is_char(v) == v < 55296 \/ (v > 57343 /\ v <= 1114111)

\* the length taken off the front of the data
cut_front(data, length) == SubSeq(data, length + 1, Len(data))

stable_length_cut_first(ty, out, data) ==
    IF ~out.ok
    THEN Taken(Err(Decoding("PrimitiveFailure." \o ty)),
               cut_front(data, size_of(ty)))
    ELSE Taken(Ok_Value(out.value), cut_front(data, size_of(ty)))

\* the fixed-width value decoded as `out`, lines 81-84: the failure returned
\* by `?`, or the data cut and the value returned
stable_length(ty, out, data) ==
    IF ~out.ok THEN Taken(Err(Decoding("PrimitiveFailure." \o ty)), data)
    ELSE Taken(Ok_Value(out.value), cut_front(data, size_of(ty)))

decode_fixed_one_more(ty, data) ==
    IF Len(data) <= size_of(ty) THEN Taken(Err(Decoding("DataTooShort")), data)
    ELSE stable_length(ty, decode_le(ty, SubSeq(data, 1, size_of(ty))), data)

\* StLen::decode_value for the fixed-width types
decode_fixed(ty, data) ==
    IF Len(data) < size_of(ty) THEN Taken(Err(Decoding("DataTooShort")), data)
    ELSE stable_length(ty, decode_le(ty, SubSeq(data, 1, size_of(ty))), data)

\* StLen::decode_value for BigUint and BigInt: 32 bytes, kept as they are
decode_big(ty, data) ==
    IF Len(data) < 32 THEN Taken(Err(Decoding("DataTooShort")), data)
    ELSE Taken(Ok_Value(SubSeq(data, 1, 32)), cut_front(data, 32))

\* StLen::decode_value for char
decode_char(data) ==
    IF Len(data) < 4 THEN Taken(Err(Decoding("DataTooShort")), data)
    ELSE IF is_char(from_le_bytes(SubSeq(data, 1, 4)))
    THEN Taken(Ok_Value(from_le_bytes(SubSeq(data, 1, 4))), cut_front(data, 4))
    ELSE Taken(Err(Decoding("PrimitiveFailure.char")), data)

\* StLen::decode_value
decode_value(ty, data) ==
    CASE ty = "char" -> decode_char(data)
      [] ty \in {"BigUint", "BigInt"} -> decode_big(ty, data)
      [] OTHER -> decode_fixed(ty, data)

decode_checked_compact_anywhere(ty, data, is_compact) ==
    IF is_compact /\ ty \notin {"char", "BigUint", "BigInt", "bool"}
    THEN get_compact(ty, data, cut_compact(data, 8 * size_of(ty)))
    ELSE decode_value(ty, data)

\* StLenCheckSpecialtyCompact::decode_checked and
\* StLenCheckCompact::decode_checked
decode_checked(ty, data, is_compact) ==
    IF ~is_compact THEN decode_value(ty, data)
    ELSE IF ty \in Unsigned \cup PerThings
    THEN get_compact(ty, data, cut_compact(data, 8 * size_of(ty)))
    ELSE Taken(Err(Decoding("UnexpectedCompactInsides")), data)

\* special_case_account_id32, and SpecialArray::cut_and_decode for a hash of
\* `length` bytes
cut_array(data, length) ==
    IF Len(data) < length THEN Taken(Err(Decoding("DataTooShort")), data)
    ELSE Taken(Ok_Value(SubSeq(data, 1, length)), cut_front(data, length))

\* longest byte vector searched
MaxData == 4

CommonsBytes == {0, 1, 2, 4}
\* byte vectors: the short ones, some with larger bytes, and two of 32 bytes
\* and more
CommonsData ==
    UNION {[1..n -> CommonsBytes] : n \in 0..MaxData} \cup
    {<<120, 86, 52, 18>>, <<120, 86, 52>>, <<255>>, <<255, 1>>,
     <<0, 216, 0, 0>>, <<2, 0, 1, 0, 4>>,
     [i \in 1..32 |-> i], [i \in 1..33 |-> 2 * i]}

Called(fn, ty, is_compact) == [fn |-> fn, ty |-> ty, is_compact |-> is_compact]

CommonsFrame ==
    UNCHANGED <<position, ExtrinsicVars, KeyVars, EntryVars, CheckerVars,
                VersionVars>>

\* a function of decoding_commons.rs has returned `taken`
Returned(taken) ==
    /\ result' = taken.res
    /\ data_vec' = taken.data
    /\ pc' = IF taken.res.tag = "Err" THEN "failed" ELSE "got"
    /\ CommonsFrame

InCommons == pc \in {"commons", "cut", "got", "failed"}

\* cut_compact called on the data
CommonsCutCompact ==
    \E ty \in Unsigned :
        /\ InCommons
        /\ called' = Called("cut_compact", ty, TRUE)
        /\ result' = cut_compact(data_vec, 8 * size_of(ty))
        /\ pc' = "cut"
        /\ UNCHANGED data_vec
        /\ CommonsFrame

\* get_compact called on the data: the compact returned, the data cut
CommonsGetCompact ==
    \E ty \in Unsigned :
        /\ InCommons
        /\ called' = Called("get_compact", ty, TRUE)
        /\ Returned(get_compact(ty, data_vec,
                                cut_compact(data_vec, 8 * size_of(ty))))

CommonsDecodeValue ==
    \E ty \in Unsigned \cup PerThings \cup Blocked :
        /\ InCommons
        /\ called' = Called("decode_value", ty, FALSE)
        /\ Returned(decode_value(ty, data_vec))

CommonsDecodeChecked ==
    \E ty \in Unsigned \cup PerThings \cup Blocked, is_compact \in BOOLEAN :
        /\ InCommons
        /\ called' = Called("decode_checked", ty, is_compact)
        /\ Returned(decode_checked(ty, data_vec, is_compact))

CommonsAccountId32 ==
    /\ InCommons
    /\ called' = Called("special_case_account_id32", "AccountId32", FALSE)
    /\ Returned(cut_array(data_vec, 32))

\* SpecialArray::cut_and_decode for H160, H256
CommonsCutAndDecode ==
    \E ty \in {"H160", "H256"} :
        /\ InCommons
        /\ called' = Called("cut_and_decode", ty, FALSE)
        /\ Returned(cut_array(data_vec, IF ty = "H160" THEN 20 ELSE 32))

InitCommons ==
    /\ pc = "commons"
    /\ position = 0
    /\ result = NoResult
    /\ data_vec \in CommonsData
    /\ called = Called("none", "none", FALSE)
    /\ ExtrinsicIdle /\ KeyIdle /\ EntryIdle /\ CheckerIdle /\ VersionIdle

NextCommons ==
    \/ CommonsCutCompact
    \/ CommonsGetCompact
    \/ CommonsDecodeValue
    \/ CommonsDecodeChecked
    \/ CommonsAccountId32
    \/ CommonsCutAndDecode

SpecCommons == InitCommons /\ [][NextCommons]_vars

-----------------------------------------------------------------------------
(* Runtime version: spec_name_version of RuntimeMetadataV14 (traits.rs) *)

\* ParsedData: a Composite with its fields, an unsigned integer with its
\* value and specialty, a Text with its text and specialty
ParsedData(kind, specialty, value, text, fields) ==
    [kind |-> kind, specialty |-> specialty, value |-> value, text |-> text,
     fields |-> fields]
NoParsed == ParsedData("None", None, 0, "", <<>>)

\* what decode_all_as_type makes of the value and type of a constant
Decoded(data) == [ok |-> TRUE, data |-> data]
NotDecoded == [ok |-> FALSE, data |-> NoParsed]

\* PalletConstantMetadata: `value` and `ty` are kept as the outcome of
\* decoding the one as the other
Constant(name, decodes) == [name |-> name, decodes |-> decodes]
Pallet(name, constants) == [name |-> name, constants |-> constants]

SpecNameVersion(printed_spec_version, spec_name) ==
    [tag |-> "Ok", printed_spec_version |-> printed_spec_version,
     spec_name |-> spec_name]

Digits == <<"0", "1", "2", "3", "4", "5", "6", "7", "8", "9">>

\* value.to_string() of an unsigned integer
RECURSIVE to_string(_)
to_string(value) ==
    IF value < 10 THEN Digits[value + 1]
    ELSE to_string(value \div 10) \o Digits[(value % 10) + 1]

\* lines 88-108: the first pallet named System ends the search (`break`),
\* in it the last constant named Version is the one kept
runtime_version_data_and_ty(ps) ==
    LET system_blocks == {i \in 1..Len(ps) : ps[i].name = "System"}
    IN  IF system_blocks = {} THEN Err(Plain("NoSystemPallet", 0, 0))
        ELSE LET pallet ==
                    ps[CHOOSE i \in system_blocks :
                            \A j \in system_blocks : i <= j]
                 versions == {i \in 1..Len(pallet.constants) :
                                pallet.constants[i].name = "Version"}
             IN  IF versions = {}
                 THEN Err(Plain("NoVersionInConstants", 0, 0))
                 ELSE [tag |-> "Ok",
                       constant |-> pallet.constants[
                            CHOOSE i \in versions :
                                \A j \in versions : j <= i]]

\* the patterns of lines 120-164 and of lines 165-168
UnsignedKinds ==
    {"PrimitiveU8", "PrimitiveU16", "PrimitiveU32", "PrimitiveU64",
     "PrimitiveU128"}
is_spec_version(data) ==
    data.kind \in UnsignedKinds /\ data.specialty = "SpecVersion"
is_spec_name(data) == data.kind = "Text" /\ data.specialty = "SpecName"

\* lines 184-196: both must have been found, the version looked at first
version_found(printed_spec_version, spec_name) ==
    IF printed_spec_version = NoId
    THEN Err(Plain("NoSpecVersionIdentifier", 0, 0))
    ELSE IF spec_name = NoId
    THEN Err(Plain("NoSpecNameIdentifier", 0, 0))
    ELSE SpecNameVersion(printed_spec_version[1], spec_name[1])

\* the scan of lines 117-180 in which a later occurrence replaces the
\* earlier one
RECURSIVE version_fields_last_wins(_, _, _)
version_fields_last_wins(fields, printed_spec_version, spec_name) ==
    IF fields = <<>> THEN version_found(printed_spec_version, spec_name)
    ELSE IF is_spec_version(Head(fields))
    THEN version_fields_last_wins(Tail(fields),
                Some(to_string(Head(fields).value)), spec_name)
    ELSE IF is_spec_name(Head(fields))
    THEN version_fields_last_wins(Tail(fields), printed_spec_version,
                Some(Head(fields).text))
    ELSE version_fields_last_wins(Tail(fields), printed_spec_version,
                                  spec_name)

\* lines 117-180: `for field in fields.iter()`, a second occurrence of
\* either returns at once
RECURSIVE version_fields(_, _, _)
version_fields(fields, printed_spec_version, spec_name) ==
    IF fields = <<>> THEN version_found(printed_spec_version, spec_name)
    ELSE IF is_spec_version(Head(fields))
    THEN IF printed_spec_version = NoId
         THEN version_fields(Tail(fields),
                    Some(to_string(Head(fields).value)), spec_name)
         ELSE Err(Plain("SpecVersionIdentifierTwice", 0, 0))
    ELSE IF is_spec_name(Head(fields))
    THEN IF spec_name = NoId
         THEN version_fields(Tail(fields), printed_spec_version,
                    Some(Head(fields).text))
         ELSE Err(Plain("SpecNameIdentifierTwice", 0, 0))
    ELSE version_fields(Tail(fields), printed_spec_version, spec_name)

\* lines 110-197
spec_name_version_from_runtime_version_data(parsed_data) ==
    IF parsed_data.kind = "Composite"
    THEN version_fields(parsed_data.fields, NoId, NoId)
    ELSE Err(Plain("UnexpectedRuntimeVersionFormat", 0, 0))

\* most fields of a runtime version
MaxFields == 3

\* fields: spec versions of three widths, an integer and a text that are not
\* tagged, the spec name, a composite that holds a spec version inside
FieldDatas ==
    {ParsedData("PrimitiveU8", "SpecVersion", 9, "", <<>>),
     ParsedData("PrimitiveU32", "SpecVersion", 1003, "", <<>>),
     ParsedData("PrimitiveU128", "SpecVersion", 14, "", <<>>),
     ParsedData("PrimitiveU32", None, 7, "", <<>>),
     ParsedData("Text", "SpecName", 0, "node", <<>>),
     ParsedData("Text", None, 0, "impl", <<>>),
     ParsedData("Composite", None, 0, "",
                <<ParsedData("PrimitiveU32", "SpecVersion", 5, "", <<>>)>>)}

\* what a constant may decode into: nothing, a spec version on its own, a
\* composite of up to MaxFields fields
Decodings ==
    {NotDecoded,
     Decoded(ParsedData("PrimitiveU32", "SpecVersion", 1003, "", <<>>))}
    \cup {Decoded(ParsedData("Composite", None, 0, "", fields)) :
            fields \in UNION {[1..n -> FieldDatas] : n \in 0..MaxFields}}

GoodVersion ==
    Decoded(ParsedData("Composite", None, 0, "",
        <<ParsedData("Text", "SpecName", 0, "node", <<>>),
          ParsedData("PrimitiveU32", "SpecVersion", 1003, "", <<>>)>>))
FewDecodings ==
    {NotDecoded, GoodVersion,
     Decoded(ParsedData("Composite", None, 0, "", <<>>))}

\* constants of the System pallet: none, others, one Version before or
\* after another constant, two constants named Version
ConstantLists ==
    {<<>>, <<Constant("BlockHashCount", GoodVersion)>>}
    \cup {<<Constant("Version", d)>> : d \in Decodings}
    \cup {<<Constant("BlockHashCount", GoodVersion), Constant("Version", d)>> :
            d \in Decodings}
    \cup {<<Constant("Version", d), Constant("SS58Prefix", NotDecoded)>> :
            d \in Decodings}
    \cup {<<Constant("Version", d), Constant("Version", e)>> :
            d \in FewDecodings, e \in FewDecodings}

Balances == Pallet("Balances", <<Constant("Version", GoodVersion)>>)

\* pallets: no System pallet, System alone, after or before another pallet,
\* two pallets named System
PalletLists ==
    {<<>>, <<Balances>>}
    \cup {<<Pallet("System", cs)>> : cs \in ConstantLists}
    \cup {<<Balances, Pallet("System", cs)>> : cs \in ConstantLists}
    \cup {<<Pallet("System", <<Constant("Version", d)>>), Balances>> :
            d \in FewDecodings}
    \cup {<<Pallet("System", cs),
            Pallet("System", <<Constant("Version", d)>>)>> :
            cs \in {<<>>, <<Constant("Version", NotDecoded)>>},
            d \in FewDecodings}

VersionFrame ==
    UNCHANGED <<position, pallets, ExtrinsicVars, KeyVars, EntryVars,
                CheckerVars, CommonsVars>>

\* line 71: runtime_version_data_and_ty(&self.pallets)?
VersionFind ==
    /\ pc = "version_start"
    /\ LET found == runtime_version_data_and_ty(pallets)
       IN  IF found.tag = "Err"
           THEN /\ result' = found
                /\ pc' = "done"
                /\ UNCHANGED runtime_version
           ELSE /\ runtime_version' = found
                /\ pc' = "version_decode"
                /\ UNCHANGED result
    /\ VersionFrame

\* lines 72-79: decode_all_as_type on the value and the type found
VersionDecode ==
    /\ pc = "version_decode"
    /\ IF runtime_version.constant.decodes.ok
       THEN /\ runtime_version' =
                    [tag |-> "Decoded",
                     constant |-> runtime_version.constant]
            /\ pc' = "version_fields"
            /\ UNCHANGED result
       ELSE /\ result' = Err(Plain("RuntimeVersionNotDecodeable", 0, 0))
            /\ pc' = "done"
            /\ UNCHANGED runtime_version
    /\ VersionFrame

\* line 78: spec_name_version_from_runtime_version_data(extended_data.data)
VersionFromData ==
    /\ pc = "version_fields"
    /\ result' = spec_name_version_from_runtime_version_data(
                        runtime_version.constant.decodes.data)
    /\ pc' = "done"
    /\ UNCHANGED runtime_version
    /\ VersionFrame

InitVersion ==
    /\ pc = "version_start"
    /\ position = 0
    /\ result = NoResult
    /\ pallets \in PalletLists
    /\ runtime_version = NoResult
    /\ ExtrinsicIdle /\ KeyIdle /\ EntryIdle /\ CheckerIdle /\ CommonsIdle

NextVersion ==
    \/ VersionFind
    \/ VersionDecode
    \/ VersionFromData

SpecRuntimeVersion == InitVersion /\ [][NextVersion]_vars

-----------------------------------------------------------------------------
(* Properties of decode_as_unchecked_extrinsic *)

Done == pc = "done"

\* the compact length prefix of the input, read on its own
prefix_of_input == get_compact_at(input, 0, 32)

\* the input holds its length prefix and exactly the bytes it announces
WellFramed ==
    /\ prefix_of_input.ok
    /\ prefix_of_input.pos + prefix_of_input.data.value = Len(input)

\* the decoder is past the version check, in the signed / unsigned branch
InSignedBranch ==
    /\ version_byte # NotRead
    /\ version_byte[1] % 128 = meta.version
    /\ version_byte[1] >= 128
InUnsignedBranch ==
    /\ version_byte # NotRead
    /\ version_byte[1] % 128 = meta.version
    /\ version_byte[1] < 128

\* C1: whenever decode_as_unchecked_extrinsic returns Ok, the position
\* reached after the call equals input.total_len(): no byte of the framed
\* body is left unconsumed.
C1_OkConsumesAllInput ==
    (Done /\ result.tag = "Ok") => position = total_len(input)

\* C2: with data_start the position after the compact length L, a frame
\* longer than the input gives Parsing(Buffer(DataTooShort{total_len,
\* data_start+L-total_len})), a shorter one gives
\* Parsing(SomeDataNotUsedBlob{data_start+L}); the version byte is read only
\* when data_start+L = total_len, and in both error cases nothing is read or
\* decoded.
C2_FrameCompared ==
    (pc # "start" /\ prefix_of_input.ok) =>
        LET data_start == prefix_of_input.pos
            L == prefix_of_input.data.value
            len == Len(input)
        IN  /\ data_start + L > len =>
                /\ Done
                /\ result = Err([kind |-> "Parsing",
                                 inner |-> "Buffer.DataTooShort",
                                 a |-> len, b |-> data_start + L - len])
                /\ version_byte = NotRead /\ decoded = <<>>
            /\ data_start + L < len =>
                /\ Done
                /\ result = Err([kind |-> "Parsing",
                                 inner |-> "SomeDataNotUsedBlob",
                                 a |-> data_start + L, b |-> 0])
                /\ version_byte = NotRead /\ decoded = <<>>
            /\ version_byte # NotRead => data_start + L = len

\* C2 witness: bytes follow the frame and the decode has ended on them
C2_Witness ==
    /\ Done
    /\ prefix_of_input.ok
    /\ prefix_of_input.pos + prefix_of_input.data.value < Len(input)
    /\ prefix_of_input.data.value > 0
    /\ result.tag = "Err" /\ result.error.inner = "SomeDataNotUsedBlob"

\* C3: for a correctly framed extrinsic whose version byte v has
\* (v & 0b0111_1111) # version, the result is VersionMismatch{v, version}
\* with the whole byte v, and nothing was looked up or decoded for it,
\* whatever the signed bit, the type parameters and the bytes after v.
C3_VersionMismatch ==
    (Done /\ WellFramed /\ prefix_of_input.pos < Len(input)
          /\ input[prefix_of_input.pos + 1] % 128 # meta.version) =>
        /\ result = Err([kind |-> "VersionMismatch", inner |-> None,
                         a |-> input[prefix_of_input.pos + 1],
                         b |-> meta.version])
        /\ decoded = <<>>

\* C3 witness: a signed version byte of the wrong version, with type
\* parameters missing and bytes after the version byte
C3_Witness ==
    /\ Done
    /\ WellFramed
    /\ version_byte = <<133>> /\ meta.version = 4
    /\ found_param(meta.params, ADDRESS_INDICATOR) = NoId
    /\ Len(input) > prefix_of_input.pos + 1
    /\ result.tag = "Err" /\ result.error.kind = "VersionMismatch"

\* the error of the signed branch for a missing parameter
MissingParamError(name) ==
    CASE name = ADDRESS_INDICATOR -> "NoAddressParam"
      [] name = SIGNATURE_INDICATOR -> "NoSignatureParam"
      [] name = EXTRA_INDICATOR -> "NoExtraParam"
      [] name = CALL_INDICATOR -> "NoCallParam"

MissingParams ==
    {name \in AllNames : found_param(meta.params, name) = NoId}

\* C4: in the signed branch, when Address, Signature, Extra or Call is not
\* among the type parameters the result is the matching No...Param error,
\* whatever the bytes of the body and the outcome of decoding the parameters
\* that are present.
C4_MissingParamReported ==
    (Done /\ InSignedBranch /\ MissingParams # {}) =>
        /\ result.tag = "Err"
        /\ \E name \in MissingParams :
                result.error = [kind |-> MissingParamError(name),
                                inner |-> None, a |-> 0, b |-> 0]

\* the order of the elements of a signed extrinsic
ElementOrder == <<"address", "signature", "extra", "call">>

\* C5: in the signed branch with the four parameters present, the elements
\* are decoded in the order address, signature, extra, call against one
\* position: address starts right after the version byte, each next element
\* starts where the previous one ended, and the first failing element ends
\* the decode with Parsing(error), the later elements not decoded.
C5_SignedOrder ==
    (InSignedBranch /\ MissingParams = {}) =>
        /\ Len(decoded) <= 4
        /\ \A i \in 1..Len(decoded) :
            /\ decoded[i].elem = ElementOrder[i]
            /\ decoded[i].ty = found_param(meta.params,
                    <<ADDRESS_INDICATOR, SIGNATURE_INDICATOR,
                      EXTRA_INDICATOR, CALL_INDICATOR>>[i])[1]
            /\ decoded[i].from = IF i = 1 THEN extrinsic_start + 1
                                 ELSE decoded[i - 1].to
            /\ LET r == decode_as_type_at_position(decoded[i].ty, input,
                                                   decoded[i].from)
               IN  /\ decoded[i].ok = r.ok
                   /\ r.ok => decoded[i].to = r.pos /\ decoded[i].data = r.data
            /\ i < Len(decoded) => decoded[i].ok
        /\ (decoded # <<>> /\ ~decoded[Len(decoded)].ok) =>
            /\ Done
            /\ result.tag = "Err" /\ result.error.kind = "Parsing"
        /\ (Done /\ result.tag = "Ok") =>
            /\ Len(decoded) = 4
            /\ result = Ok_Signed(decoded[1].data, decoded[2].data,
                                  decoded[3].data, decoded[4].data)
        /\ Done => (decoded # <<>> /\
                    (decoded[Len(decoded)].ok => Len(decoded) = 4))

\* C5 witness: a signed extrinsic decoded to its end, every element holding
\* at least one byte
C5_Witness ==
    /\ Done /\ InSignedBranch /\ MissingParams = {}
    /\ result.tag = "Ok"
    /\ Len(decoded) = 4
    /\ \A i \in 1..4 : decoded[i].to > decoded[i].from

\* C6: in the unsigned branch only the Call parameter is used: missing, the
\* result is Parsing(ExtrinsicNoCallParam); decoded to data that is no
\* ParsedData::Call, UnexpectedCallTy{call_ty_id}; else Unsigned{call}.
\* Address, Signature and Extra are neither required nor decoded. With
\* metadata version 4, byte 0x04 takes this branch and 0x84 the signed one.
C6_UnsignedBranch ==
    /\ (Done /\ InUnsignedBranch) =>
        LET found_call == found_param(meta.params, CALL_INDICATOR)
            r == decode_as_type_at_position(found_call[1], input,
                                            extrinsic_start + 1)
        IN  /\ \A i \in 1..Len(decoded) : decoded[i].elem = "call"
            /\ found_call = NoId =>
                /\ result = Err([kind |-> "Parsing",
                                 inner |-> "ExtrinsicNoCallParam",
                                 a |-> 0, b |-> 0])
                /\ decoded = <<>>
            /\ (found_call # NoId /\ r.ok /\ r.data.kind # "Call") =>
                result = Err([kind |-> "UnexpectedCallTy", inner |-> None,
                              a |-> found_call[1], b |-> 0])
            /\ (found_call # NoId /\ r.ok /\ r.data.kind = "Call") =>
                result = [tag |-> "Ok", kind |-> "Unsigned", call |-> r.data]
    /\ (meta.version = 4 /\ version_byte = <<4>>) =>
        /\ pc \in {"unsigned_call", "done"}
        /\ \A i \in 1..Len(decoded) : decoded[i].elem = "call"
        /\ result.tag = "Ok" => result.kind = "Unsigned"
    /\ (meta.version = 4 /\ version_byte = <<132>>) =>
        /\ pc \in {"address", "signature", "extra", "call", "done"}
        /\ result.tag = "Ok" => result.kind = "Signed"
        /\ Done => (\E i \in 1..Len(decoded) : decoded[i].elem = "address")
                    \/ result = Err([kind |-> "NoAddressParam",
                                     inner |-> None, a |-> 0, b |-> 0])

\* C6 witness: an unsigned extrinsic accepted with no Address, Signature or
\* Extra among the type parameters
C6_Witness ==
    /\ Done /\ InUnsignedBranch
    /\ MissingParams =
        {ADDRESS_INDICATOR, SIGNATURE_INDICATOR, EXTRA_INDICATOR}
    /\ result.tag = "Ok" /\ result.kind = "Unsigned"

\* the input is compact(len(0x04 || call_bytes)) || 0x04 || call_bytes
FramedUnsigned ==
    /\ Len(input) >= 2
    /\ input[1] = 4 * (Len(input) - 1)
    /\ input[2] = 4

\* call_bytes decoded directly against the call type, from position 0
DirectCall ==
    decode_as_type_at_position(
        found_param(meta.params, CALL_INDICATOR)[1],
        SubSeq(input, 3, Len(input)), 0)

\* call_bytes decode completely as the call type, to a call
CallBytesDecode ==
    /\ found_param(meta.params, CALL_INDICATOR) # NoId
    /\ DirectCall.ok
    /\ DirectCall.pos = Len(input) - 2
    /\ DirectCall.data.kind = "Call"

\* C7: for call_bytes that decode completely as the call type, the framed
\* compact(len(0x04 || call_bytes)) || 0x04 || call_bytes decodes, with
\* metadata version 4, to Unsigned{call} with the call that decoding
\* call_bytes directly against the call type from position 0 gives.
C7_FramedEqualsDirect ==
    (Done /\ meta.version = 4 /\ FramedUnsigned /\ CallBytesDecode) =>
        result = [tag |-> "Ok", kind |-> "Unsigned",
                  call |-> DirectCall.data]

\* C7 witness: a framed call of three bytes, one of them an argument
C7_Witness ==
    /\ Done /\ meta.version = 4 /\ FramedUnsigned /\ CallBytesDecode
    /\ Len(input) = 5
    /\ result.tag = "Ok" /\ result.call = DirectCall.data

-----------------------------------------------------------------------------
(* Properties of process_key_mapped *)

\* a key part is about to be processed: its hasher and its type
PartPending ==
    \/ pc = "key_start" /\ Len(hashers) = 1
    \/ pc = "key_parts" /\ Len(content) < Len(tuple_elements)
PartHasher ==
    IF pc = "key_start" THEN hashers[1] ELSE hashers[Len(content) + 1]
PartTy ==
    IF pc = "key_start" THEN key_ty ELSE tuple_elements[Len(content) + 1]

\* the hash bytes of the pending part as they stand in the key, and the
\* value decoded right after them
HashInKey == SubSeq(key_input, position + 1, position + HashLen(PartHasher))
ValueInKey ==
    decode_as_type_at_position(PartTy, key_input,
                               position + HashLen(PartHasher))
ValueBytes ==
    SubSeq(key_input, position + HashLen(PartHasher) + 1, ValueInKey.pos)

\* a Blake2_128Concat or Twox64Concat part whose hash is in the key and
\* whose value bytes decode as the key type
ConcatPartDecodes ==
    /\ PartPending
    /\ PartHasher \in ConcatHashers
    /\ position + HashLen(PartHasher) <= Len(key_input)
    /\ ValueInKey.ok

\* C8: a Blake2_128Concat (16-byte hash) or Twox64Concat (8-byte hash) key
\* part whose value bytes decode as the key type is accepted as
\* KeyPart::Parsed iff the hash bytes read from the key equal the hasher
\* applied to exactly the bytes from the position after the hash to the
\* position after the decoded value; any other hash prefix, one flipped bit
\* included, gives KeyPartHashMismatch.
C8_HashChecked ==
    [][ConcatPartDecodes =>
        IF HashInKey = HashOf(PartHasher, ValueBytes)
        THEN /\ content' = Append(content, [kind |-> "Parsed",
                    variant |-> None, hash |-> <<>>, type_id |-> 0,
                    data |-> ValueInKey.data])
             /\ position' = ValueInKey.pos
             /\ result' = result
        ELSE /\ result' = Err([kind |-> "KeyPartHashMismatch",
                               inner |-> None, a |-> 0, b |-> 0])
             /\ content' = content
             /\ pc' = "done"]_vars

\* the single part of a one-hasher key, seen from the end of the run
SingleValue ==
    decode_as_type_at_position(key_ty, key_input,
                               start_position + HashLen(hashers[1]))
SingleHashInKey ==
    SubSeq(key_input, start_position + 1,
           start_position + HashLen(hashers[1]))
SingleRehash ==
    HashOf(hashers[1],
           SubSeq(key_input, start_position + HashLen(hashers[1]) + 1,
                  SingleValue.pos))

\* C8 witness: the hash in the key is one flipped bit away from the hash of
\* the value bytes, two of them, and the part was refused
C8_Witness ==
    /\ Done
    /\ Len(hashers) = 1 /\ hashers[1] \in ConcatHashers
    /\ start_position + HashLen(hashers[1]) <= Len(key_input)
    /\ SingleValue.ok
    /\ SingleValue.pos = start_position + HashLen(hashers[1]) + 2
    /\ \E i \in 1..HashLen(hashers[1]) : \E bit \in 0..7 :
            Flip(SingleHashInKey, i, bit) = SingleRehash
    /\ result.tag = "Err" /\ result.error.kind = "KeyPartHashMismatch"

\* every key part was processed, none failed
AllPartsProcessed ==
    IF Len(hashers) = 1 THEN Len(content) = 1
    ELSE /\ resolve_ty(key_ty).ok
         /\ resolve_ty(key_ty).ty.def = "Tuple"
         /\ Len(resolve_ty(key_ty).ty.fields) = Len(hashers)
         /\ Len(content) = Len(hashers)

\* C9: process_key_mapped returns Ok(key_data) only if the position after
\* all key parts equals key_input.total_len(); when every key part was
\* processed and bytes remain the result is KeyPartsUnused, for every hasher
\* list and start position.
C9_WholeKeyUsed ==
    /\ (Done /\ result.tag = "Ok") =>
        /\ position = total_len(key_input)
        /\ AllPartsProcessed
    /\ (Done /\ AllPartsProcessed /\ position # total_len(key_input)) =>
        result = Err([kind |-> "KeyPartsUnused", inner |-> None,
                      a |-> 0, b |-> 0])

\* C9 witness: two parts processed from a start position past the prefix,
\* one byte of the key left
C9_Witness ==
    /\ Done
    /\ Len(hashers) = 2 /\ Len(content) = 2
    /\ start_position > 0
    /\ position + 1 = total_len(key_input)
    /\ result.tag = "Err" /\ result.error.kind = "KeyPartsUnused"

\* the part is what `hasher` gives for a key of type `ty`
PartFits(part, hasher, ty) ==
    IF hasher \in {"Blake2_128", "Blake2_256", "Twox128", "Twox256"}
    THEN /\ part.kind = "Hash"
         /\ part.variant = hasher
         /\ part.type_id = ty
         /\ Len(part.hash) = HashLen(hasher)
    ELSE /\ part.kind = "Parsed"
         /\ part.data.kind = resolve_ty(ty).ty.def

\* C10: with more than one hasher, a key type that is no Tuple gives
\* MultipleHashesNotATuple and a Tuple of another number of fields gives
\* MultipleHashesNumberMismatch, both before any key byte is read;
\* otherwise hasher i is applied to tuple field i in index order and
\* TupleHash.content has len(hashers) parts in that order.
C10_TupleHashers ==
    (Len(hashers) > 1 /\ pc # "key_start" /\ resolve_ty(key_ty).ok) =>
        LET ty == resolve_ty(key_ty).ty
        IN  /\ ty.def # "Tuple" =>
                /\ Done
                /\ result = Err([kind |-> "MultipleHashesNotATuple",
                                 inner |-> None, a |-> 0, b |-> 0])
                /\ reads = <<>> /\ position = start_position
            /\ (ty.def = "Tuple" /\ Len(ty.fields) # Len(hashers)) =>
                /\ Done
                /\ result = Err([kind |-> "MultipleHashesNumberMismatch",
                                 inner |-> None, a |-> 0, b |-> 0])
                /\ reads = <<>> /\ position = start_position
            /\ (ty.def = "Tuple" /\ Len(ty.fields) = Len(hashers)) =>
                /\ Len(content) <= Len(hashers)
                /\ \A i \in 1..Len(content) :
                        PartFits(content[i], hashers[i], ty.fields[i])
                /\ reads # <<>> => reads[1].pos = start_position
                /\ \A i \in 1..Len(reads) - 1 :
                        reads[i].pos <= reads[i + 1].pos
                /\ result.tag = "Ok" =>
                    /\ result.kind = "TupleHash"
                    /\ result.content = content
                    /\ Len(result.content) = Len(hashers)

\* C10 witness: two different hashers on a two-field tuple, the key taken
\* whole
C10_Witness ==
    /\ Done
    /\ Len(hashers) = 2 /\ hashers[1] # hashers[2]
    /\ hashers[1] \in ConcatHashers
    /\ result.tag = "Ok" /\ result.kind = "TupleHash"
    /\ Len(result.content) = 2

\* C28: with an empty hasher list process_key_mapped takes the branch of
\* several hashers and indexes no hasher: no key byte is read and no part is
\* made; a key type that is not a Tuple gives MultipleHashesNotATuple, a
\* Tuple with at least one field MultipleHashesNumberMismatch, a Tuple
\* without fields TupleHash with empty content when position == total_len
\* and KeyPartsUnused otherwise; the result is never SingleHash.  (A key type
\* the registry cannot resolve gives ParsingKey with the registry's error.)
C28_NoHashers ==
    Len(hashers) = 0 =>
        /\ content = <<>> /\ reads = <<>> /\ position = start_position
        /\ pc = "key_parts" => tuple_elements = <<>>
        /\ (Done /\ result.tag = "Ok") => result.kind # "SingleHash"
        /\ (Done /\ ~resolve_ty(key_ty).ok) =>
                /\ result.tag = "Err"
                /\ result.error.kind = "ParsingKey"
        /\ (Done /\ resolve_ty(key_ty).ok) =>
            LET ty == resolve_ty(key_ty).ty
            IN  IF ty.def # "Tuple"
                THEN result = Err([kind |-> "MultipleHashesNotATuple",
                                   inner |-> None, a |-> 0, b |-> 0])
                ELSE IF Len(ty.fields) >= 1
                THEN result = Err([kind |-> "MultipleHashesNumberMismatch",
                                   inner |-> None, a |-> 0, b |-> 0])
                ELSE IF position = total_len(key_input)
                THEN result = [tag |-> "Ok", kind |-> "TupleHash",
                               content |-> <<>>, info |-> <<key_ty>>]
                ELSE result = Err([kind |-> "KeyPartsUnused",
                                   inner |-> None, a |-> 0, b |-> 0])

\* C28 witness: no hasher and a tuple without fields, from a start position
\* past the prefix: the key ends there and an empty TupleHash is returned
C28_Witness ==
    /\ Done
    /\ hashers = <<>>
    /\ resolve_ty(key_ty).ok
    /\ resolve_ty(key_ty).ty.def = "Tuple"
    /\ resolve_ty(key_ty).ty.fields = <<>>
    /\ start_position > 0
    /\ position = total_len(key_input)
    /\ result.tag = "Ok" /\ result.kind = "TupleHash"
    /\ result.content = <<>>

\* C28 second case: one byte follows the start position
C28_Unused ==
    /\ Done
    /\ hashers = <<>>
    /\ key_ty = T_unit
    /\ position + 1 = total_len(key_input)
    /\ result.tag = "Err" /\ result.error.kind = "KeyPartsUnused"

\* what stops a Concat part of type `ty` at `pos`, the causes taken in the
\* order hash bytes, value, hash comparison; kind "None" when nothing does
ConcatFailure(hasher, ty, pos) ==
    LET starts == pos + HashLen(hasher)
        value == decode_as_type_at_position(ty, key_input, starts)
    IN  IF starts > Len(key_input)
        THEN [kind |-> "ParsingKey", inner |-> "Buffer.DataTooShort",
              a |-> Len(key_input), b |-> starts - Len(key_input)]
        ELSE IF ~value.ok
        THEN [kind |-> "ParsingKey", inner |-> value.err.kind,
              a |-> value.err.a, b |-> value.err.b]
        ELSE IF SubSeq(key_input, pos + 1, starts)
                    # HashOf(hasher, SubSeq(key_input, starts + 1, value.pos))
        THEN [kind |-> "KeyPartHashMismatch", inner |-> None,
              a |-> 0, b |-> 0]
        ELSE [kind |-> "None", inner |-> None, a |-> 0, b |-> 0]

\* the run ended at a part of a tuple key: the parts before it are in content
StoppedAtTuplePart ==
    /\ Done /\ result.tag = "Err"
    /\ Len(hashers) > 1
    /\ tuple_elements # <<>>
    /\ Len(content) < Len(hashers)

\* C29: a Concat key part reports its failure causes in a fixed order: too
\* few bytes for the hash give ParsingKey(Buffer(..)); otherwise a value that
\* does not decode gives ParsingKey(error), whatever the hash; otherwise a
\* wrong hash gives KeyPartHashMismatch, whatever follows the value.
\* KeyPartsUnused is reported only when every part was processed and passed
\* its hash check, and in a tuple key the first failing part in index order
\* decides the error: no later part is read.
C29_FailureOrder ==
    /\ [](Done /\ result.tag = "Err" /\ result.error.kind = "KeyPartsUnused"
            => /\ AllPartsProcessed
               /\ (Len(hashers) = 1 /\ hashers[1] \in ConcatHashers)
                    => SingleHashInKey = SingleRehash)
    /\ [](StoppedAtTuplePart /\ hashers[Len(content) + 1] \in ConcatHashers
            => result = Err(ConcatFailure(hashers[Len(content) + 1],
                                tuple_elements[Len(content) + 1], position)))
    /\ [][(PartPending /\ PartHasher \in ConcatHashers) =>
            IF ConcatFailure(PartHasher, PartTy, position).kind = "None"
            THEN /\ result' = result
                 /\ pc' # "done"
                 /\ Len(content') = Len(content) + 1
            ELSE /\ result' = Err(ConcatFailure(PartHasher, PartTy, position))
                 /\ pc' = "done"
                 /\ content' = content /\ position' = position]_vars

\* C29 witness: the second part of a tuple key is a Concat part whose value
\* does not decode and whose hash bytes are the hash of no prefix of what
\* follows them; the error is the one of the decode
C29_Witness ==
    /\ StoppedAtTuplePart
    /\ Len(content) = 1
    /\ hashers[2] \in ConcatHashers
    /\ position + HashLen(hashers[2]) <= Len(key_input)
    /\ ~decode_as_type_at_position(tuple_elements[2], key_input,
            position + HashLen(hashers[2])).ok
    /\ \A n \in (position + HashLen(hashers[2]))..Len(key_input) :
            SubSeq(key_input, position + 1, position + HashLen(hashers[2]))
                # HashOf(hashers[2],
                         SubSeq(key_input,
                                position + HashLen(hashers[2]) + 1, n))
    /\ result.error.kind = "ParsingKey"

\* C29, third cause: the first part of a tuple key has a wrong hash, the
\* bytes of the second part follow it
C29_MismatchFirst ==
    /\ StoppedAtTuplePart
    /\ content = <<>>
    /\ hashers[1] \in ConcatHashers
    /\ result.error.kind = "KeyPartHashMismatch"
    /\ ConcatFailure(hashers[1], tuple_elements[1], position).kind
            = "KeyPartHashMismatch"
    /\ decode_as_type_at_position(tuple_elements[1], key_input,
            position + HashLen(hashers[1])).pos < Len(key_input)

\* C29, first cause: the key ends inside the hash of a Concat part
C29_ShortHash ==
    /\ Done /\ result.tag = "Err"
    /\ Len(hashers) = 1 \/ StoppedAtTuplePart
    /\ hashers[Len(content) + 1] \in ConcatHashers
    /\ position < Len(key_input)
    /\ position + HashLen(hashers[Len(content) + 1]) > Len(key_input)
    /\ result.error.kind = "ParsingKey"
    /\ result.error.inner = "Buffer.DataTooShort"

\* C30: while process_key_mapped runs the position never decreases and
\* never passes key_input.total_len(); hence the slice a Concat part reads
\* again for the rehash, from position_decoder_starts to the position after
\* the value, has a length that is not negative and lies inside the key, and
\* the `expect("positions checked, valid slice")` never fails.  The typed
\* decoder returns Ok only with a position it has read up to.
C30_PositionInKey ==
    /\ [](/\ start_position <= position
          /\ position <= total_len(key_input)
          /\ result.tag = "Err" =>
                result.error.kind # "panic: positions checked, valid slice")
    /\ [][/\ position' >= position
          /\ ConcatPartDecodes =>
                LET position_decoder_starts == position + HashLen(PartHasher)
                IN  /\ position_decoder_starts <= ValueInKey.pos
                    /\ ValueInKey.pos <= total_len(key_input)
                    /\ reads' = reads \o
                         <<Read(position, HashLen(PartHasher)),
                           Decode(position_decoder_starts, PartTy),
                           Read(position_decoder_starts,
                                ValueInKey.pos - position_decoder_starts)>>
                    /\ result' = result => position' = ValueInKey.pos]_vars

\* C30 witness: a tuple key of a hash and a Concat part, from a start
\* position past the prefix; the value was read again for the rehash, one
\* byte that ends the key, and both parts were accepted
C30_Witness ==
    /\ Done /\ result.tag = "Ok"
    /\ start_position > 0
    /\ Len(hashers) = 2
    /\ hashers[1] \in {"Blake2_128", "Blake2_256", "Twox128", "Twox256"}
    /\ hashers[2] \in ConcatHashers
    /\ Len(reads) = 4
    /\ reads[4] = Read(start_position + HashLen(hashers[1])
                            + HashLen(hashers[2]), 1)
    /\ position = total_len(key_input)
    /\ position = reads[4].pos + 1

-----------------------------------------------------------------------------
(* Properties of decode_as_storage_entry *)

EntryReturned == pc = "done" /\ entry_stage = "returned"

\* the value of the entry decoded on its own: by the typed decode, and with
\* the whole blob required
ValueTyped == decode_as_type_at_position(entry.value_ty, value_input, 0)
ValueWhole == decode_all_as_type(entry.value_ty, value_input)

\* C11: for a Plain storage entry a key shorter than 32 bytes gives
\* KeyShorterThanPrefix, a longer one PlainKeyExceedsPrefix; a key of 32
\* bytes gives KeyData::Plain and the outcome of decoding the whole value.
\* The bytes of the prefix are not looked at.
C11_PlainKey ==
    (EntryReturned /\ entry.kind = "Plain") =>
        /\ Len(key_input) < 32 =>
            result = Err([kind |-> "KeyShorterThanPrefix", inner |-> None,
                          a |-> 0, b |-> 0])
        /\ Len(key_input) > 32 =>
            result = Err([kind |-> "PlainKeyExceedsPrefix", inner |-> None,
                          a |-> 0, b |-> 0])
        /\ Len(key_input) = 32 =>
            /\ key = [tag |-> "Ok", kind |-> "Plain", content |-> <<>>,
                      info |-> NoId]
            /\ IF ValueWhole.ok
               THEN result = [tag |-> "Ok", kind |-> "Storage", key |-> key,
                              value |-> ValueWhole.data, docs |-> entry.docs]
               ELSE result = Err([kind |-> "ParsingValue",
                                  inner |-> ValueWhole.err.kind,
                                  a |-> ValueWhole.err.a,
                                  b |-> ValueWhole.err.b])
        /\ Len(key_input) # 32 => key = NoKey
        /\ reads = <<>> /\ position = 0

\* C11 witness: a Plain entry with a 32-byte key that is no hash of a name,
\* the value decoded
C11_Witness ==
    /\ EntryReturned /\ entry.kind = "Plain"
    /\ Len(key_input) = 32 /\ key_input # Fill(32)
    /\ result.tag = "Ok" /\ result.key.kind = "Plain"
    /\ value_input # <<>>

\* C12: a key part of an opaque hasher Blake2_128, Blake2_256, Twox128 or
\* Twox256 reads 16, 32, 16 or 32 bytes at the current position, advances
\* the position by that length, decodes nothing and gives KeyPart::Hash with
\* those bytes, the algorithm and the id of the key type or tuple field;
\* with fewer bytes left the result is ParsingKey(Buffer(..)) and the
\* position stays.
C12_OpaqueHashers ==
    [][(PartPending /\ PartHasher \in {"Blake2_128", "Blake2_256", "Twox128",
                                       "Twox256"}) =>
        LET len == CASE PartHasher = "Blake2_128" -> 16
                     [] PartHasher = "Blake2_256" -> 32
                     [] PartHasher = "Twox128" -> 16
                     [] PartHasher = "Twox256" -> 32
        IN  /\ reads' = Append(reads, [op |-> "read_slice",
                                       pos |-> position, len |-> len])
            /\ IF position + len <= Len(key_input)
               THEN /\ content' = Append(content,
                        [kind |-> "Hash", variant |-> PartHasher,
                         hash |-> SubSeq(key_input, position + 1,
                                         position + len),
                         type_id |-> PartTy, data |-> NoData])
                    /\ position' = position + len
                    /\ result' = result
               ELSE /\ result'.tag = "Err"
                    /\ result'.error.kind = "ParsingKey"
                    /\ result'.error.inner \in {"Buffer.DataTooShort",
                                                "Buffer.OutOfRange"}
                    /\ position' = position
                    /\ content' = content
                    /\ pc' = "done"]_vars

\* C12 witness: the second part of a tuple key was cut as a 32-byte hash
C12_Witness ==
    /\ Len(content) = 2
    /\ content[2].kind = "Hash" /\ Len(content[2].hash) = 32
    /\ content[2].type_id = tuple_elements[2]
    /\ position >= start_position + 32

\* C13: decode_all_as_type(T, b) is Ok only when the decode stopped at
\* len(b); a typed decode that ends at p < len(b) gives
\* SomeDataNotUsedBlob{from: p}. So decode_as_storage_entry is Ok only for
\* a value used whole, and a value with bytes left gives
\* ParsingValue(SomeDataNotUsedBlob{..}).
C13_ValueUsedWhole ==
    /\ ValueWhole.ok =>
        /\ ValueTyped.ok
        /\ ValueTyped.pos = Len(value_input)
        /\ ValueWhole.data = ValueTyped.data
    /\ (ValueTyped.ok /\ ValueTyped.pos < Len(value_input)) =>
        /\ ~ValueWhole.ok
        /\ ValueWhole.err = [kind |-> "SomeDataNotUsedBlob",
                             a |-> ValueTyped.pos, b |-> 0]
    /\ (EntryReturned /\ result.tag = "Ok") =>
        /\ ValueTyped.ok
        /\ ValueTyped.pos = Len(value_input)
        /\ result.value = ValueTyped.data
    /\ (EntryReturned /\ key # NoKey /\ ValueTyped.ok
            /\ ValueTyped.pos < Len(value_input)) =>
        result = Err([kind |-> "ParsingValue",
                      inner |-> "SomeDataNotUsedBlob",
                      a |-> ValueTyped.pos, b |-> 0])

\* C13 witness: the key of a Map entry was taken and the value has one byte
\* more than its type
C13_Witness ==
    /\ EntryReturned /\ entry.kind = "Map"
    /\ key # NoKey
    /\ ValueTyped.ok /\ ValueTyped.pos + 1 = Len(value_input)
    /\ result.tag = "Err" /\ result.error.inner = "SomeDataNotUsedBlob"

\* C27: decode_as_storage_entry is done with the key before it turns to
\* the value. The value stage is entered only with a key that was accepted;
\* a key that was not gives the key's error, whatever the value holds, and
\* never ParsingValue; a parser error on the key side is wrapped as
\* ParsingKey, one on the value side as ParsingValue. The key of a Map entry
\* is read from position 32 on.
C27_KeyBeforeValue ==
    /\ entry_stage = "value" => (key # NoKey /\ key.tag = "Ok")
    /\ (EntryReturned /\ key = NoKey) =>
        /\ result.tag = "Err"
        /\ result.error.kind # "ParsingValue"
        /\ result.error.inner # None => result.error.kind = "ParsingKey"
    /\ (EntryReturned /\ key # NoKey /\ result.tag = "Err") =>
        /\ ~ValueWhole.ok
        /\ result = Err(Wrap("ParsingValue", ValueWhole.err))
    /\ (entry.kind = "Map" /\ reads # <<>>) => reads[1].pos = 32
    /\ (entry.kind = "Map" /\ entry_stage = "key") => position >= 32

\* C27 witness: a Map entry whose key fails its hash check, with a value that
\* would decode
C27_Witness ==
    /\ EntryReturned /\ entry.kind = "Map"
    /\ key = NoKey
    /\ result.tag = "Err" /\ result.error.kind = "KeyPartHashMismatch"
    /\ ValueWhole.ok

\* the value stage of decode_as_storage_entry was reached and has returned
ValueDecoded == EntryReturned /\ key # NoKey

Ids(seq) == {seq[i] : i \in 1..Len(seq)}

\* type graph of the registry: a type and a type of one of its fields
AllEdges ==
    UNION {{<<id, f>> : f \in Ids(Registry[id].fields)} \cup
           UNION {{<<id, f>> : f \in Ids(Registry[id].variants[v].fields)} :
                    v \in 1..Len(Registry[id].variants)} :
             id \in DOMAIN Registry}

\* the resolutions made before a byte of the type is consumed: the first
\* field of a tuple, the inner type of a compact
ZeroByteEdges ==
    {<<id, Registry[id].fields[1]>> :
        id \in {i \in DOMAIN Registry :
                  /\ Registry[i].def \in {"Tuple", "Compact"}
                  /\ Registry[i].fields # <<>>}}

RECURSIVE Reached(_, _)
Reached(edges, from) ==
    LET next == from \cup {e[2] : e \in {x \in edges : x[1] \in from}}
    IN  IF next = from THEN from ELSE Reached(edges, next)

\* the ids reached from `id` in one step or more
After(edges, id) == Reached(edges, {e[2] : e \in {x \in edges : x[1] = id}})
OnCycle(edges, id) == id \in After(edges, id)
LeadsToCycle(edges, id) ==
    \E k \in After(edges, id) \cup {id} : OnCycle(edges, k)

CyclicValue(id) ==
    Err([kind |-> "ParsingValue", inner |-> "CyclicMetadata", a |-> id,
         b |-> 0])

-----------------------------------------------------------------------------
(* Properties of the propagation carrier *)

\* the step is a call of for_ty or for_field on `parent`
Derives == last'.op \in {"for_ty", "for_field"}
\* the Checker of the Propagated that call built
BuiltChild == IF current = NoChecker THEN current' ELSE sibling'
\* the step is a method called on `current` in place
InPlace ==
    last'.op \in {"check_id", "update_from_path", "forget_hint",
                  "drop_cycle_check", "set_compact"}

NoRepeat(seq) == \A i, j \in 1..Len(seq) : seq[i] = seq[j] => i = j

Cyclic(id) == Error("CyclicMetadata", id, 0)

\* C14: check_id(k), and update_for_ty / update_for_field for type id k,
\* fail with CyclicMetadata{id: k} and produce no Checker when k is already
\* in cycle_check; otherwise cycle_check is the one before with k appended
\* and compact_at is kept; no cycle_check ever holds an id twice.
C14_CycleCheck ==
    /\ [](/\ NoRepeat(parent.cycle_check)
          /\ NoRepeat(current.cycle_check)
          /\ NoRepeat(sibling.cycle_check))
    /\ [][/\ last'.op = "check_id" =>
               IF InSeq(last'.id, current.cycle_check)
               THEN /\ ~last'.ok
                    /\ last'.err = Cyclic(last'.id)
                    /\ current' = current
               ELSE /\ last'.ok
                    /\ current' = [current EXCEPT
                                      !.cycle_check = Append(@, last'.id)]
          /\ Derives =>
               IF InSeq(last'.id, parent.cycle_check)
               THEN /\ ~last'.ok
                    /\ last'.err = Cyclic(last'.id)
                    /\ current' = current
                    /\ sibling' = sibling
               ELSE /\ last'.ok
                    /\ BuiltChild.cycle_check =
                           Append(parent.cycle_check, last'.id)
                    /\ BuiltChild.compact_at = parent.compact_at]_vars

\* a check_id for an id already in a cycle_check of two ids has failed
C14_Witness ==
    /\ last.op = "check_id"
    /\ ~last.ok
    /\ Len(current.cycle_check) = 2
    /\ InSeq(last.id, current.cycle_check)

\* C16: compact_at is monotone. A Checker with compact_at = Some(id) keeps
\* it through update_from_path, forget_hint, drop_cycle_check and check_id,
\* and hands it to every child made by update_for_ty / update_for_field;
\* the fresh carriers of new and from_ext_meta have compact_at = None, and
\* nothing else turns Some(id) into None.
C16_CompactKept ==
    [][/\ (InPlace /\ last'.op # "set_compact"
               /\ current.compact_at # NoId) =>
            current'.compact_at = current.compact_at
       /\ (Derives /\ last'.ok /\ parent.compact_at # NoId) =>
            /\ BuiltChild.compact_at = parent.compact_at
            /\ parent'.compact_at = parent.compact_at
       /\ last'.op = "new" => current'.compact_at = NoId
       /\ (current.compact_at # NoId /\ current' # NoChecker
               /\ current'.compact_at = NoId) => last'.op = "new"]_vars

\* C16 witness: the child of a parent with compact_at = Some(ping) has
\* forgotten its hint
C16_Witness ==
    /\ last.op = "forget_hint"
    /\ parent # NoChecker /\ parent.compact_at = Some(T_ping)
    /\ current.compact_at = Some(T_ping)
    /\ current.cycle_check # <<>>

\* C17, as stated: the hint of a child built by for_ty / for_field differs
\* from the parent's hint if and only if the parent's hint is None.
C17_DiffersIffNone ==
    [][(Derives /\ last'.ok) =>
        (BuiltChild.hint # parent.hint <=> parent.hint = None)]_vars

\* C17: the hint of a child built by for_field or for_ty is the parent's
\* hint when that is not None, and Hint::from_field(field) or
\* Hint::from_path(ty.path) when it is None (the same None again when the
\* field or path gives no hint); update_from_path does the same in place. A
\* hint that is not None changes only through forget_hint, which sets it to
\* None.
C17_HintMerged ==
    [][/\ (Derives /\ last'.ok) =>
            BuiltChild.hint =
                IF parent.hint = None THEN last'.hint ELSE parent.hint
       /\ last'.op = "update_from_path" =>
            current'.hint =
                IF current.hint = None THEN last'.hint ELSE current.hint
       /\ last'.op = "forget_hint" => current'.hint = None
       /\ (InPlace /\ current.hint # None /\ current'.hint # current.hint)
            => last'.op = "forget_hint"]_vars

\* C17 witness: a child built by for_ty for a type whose path gives no hint,
\* from a parent that has none
C17_Witness ==
    /\ last.op = "for_ty" /\ last.ok /\ last.hint = None
    /\ parent # NoChecker /\ parent.hint = None
    /\ sibling = NoChecker
    /\ current.hint = None
    /\ current.cycle_check = Append(parent.cycle_check, last.id)

\* C18: for_ty / update_for_ty and for_field / update_for_field leave the
\* parent Checker as it was, whether they succeed or fail, and leave a child
\* built before as it was; whether they succeed depends on the parent's
\* cycle_check alone, so a second child for the same type id is built as
\* the first was; a method called on one child changes neither the parent
\* nor the other child.
C18_ParentUntouched ==
    [][/\ Derives =>
            /\ parent' = parent
            /\ current # NoChecker => current' = current
            /\ last'.ok <=> ~InSeq(last'.id, parent.cycle_check)
       /\ InPlace => (parent' = parent /\ sibling' = sibling)]_vars

\* C18 witness: two children of one parent built for the same type id, with
\* different hints
C18_Witness ==
    /\ last.op = "for_field" /\ last.ok /\ last.id = T_pong
    /\ parent # NoChecker /\ Len(parent.cycle_check) = 1
    /\ sibling # NoChecker
    /\ sibling.cycle_check = Append(parent.cycle_check, T_pong)
    /\ current.cycle_check = sibling.cycle_check
    /\ current.hint # sibling.hint

\* C19: every entry of the `info` of a Propagated is a non-empty Info, after
\* any sequence of new, from_ext_meta, for_field, for_ty, add_info and
\* add_info_slice with any Info arguments.
C19_NoEmptyInfo ==
    \A i \in 1..Len(collected) : ~is_empty(collected[i])

-----------------------------------------------------------------------------
(* Properties of decoding_commons.rs *)

\* C20: decoding a compact from an empty byte sequence fails with NoCompact
\* and with no other error.
C20_EmptyIsNoCompact ==
    (pc = "cut" /\ data_vec = <<>>) => result = Err(Decoding("NoCompact"))

\* the k little-endian bytes of v
le_bytes(v, k) == [i \in 1..k |-> (v \div 256 ^ (i - 1)) % 256]

\* Compact<T>::encode of parity_scale_codec, for n below 2^29
encode_compact(n) ==
    IF n < 64 THEN <<4 * n>>
    ELSE IF n < 16384 THEN le_bytes(4 * n + 1, 2)
    ELSE le_bytes(4 * n + 2, 4)

CompactValues == {0, 1, 64, 128, 256, 16384}
InRange(n, ty) == size_of(ty) = 4 \/ n < 2 ^ (8 * size_of(ty))
StartsWith(data, prefix) ==
    Len(prefix) <= Len(data) /\ SubSeq(data, 1, Len(prefix)) = prefix

\* C21: for n in the range of T and any bytes s, get_compact::<T> on
\* encode_compact(n) followed by s returns n and leaves s as the data; when
\* no prefix of a non-empty input decodes the result is NoCompact.
C21_ShortestPrefix ==
    [][called'.fn = "get_compact" =>
        /\ \A n \in CompactValues :
            (InRange(n, called'.ty)
                /\ StartsWith(data_vec, encode_compact(n))) =>
                /\ result' = Ok_Value(n)
                /\ data_vec' = cut_front(data_vec, Len(encode_compact(n)))
        /\ (data_vec # <<>>
                /\ \A i \in 1..Len(data_vec) :
                    ~CompactDecode(SubSeq(data_vec, 1, i),
                                   8 * size_of(called'.ty)).ok) =>
            /\ result' = Err(Decoding("NoCompact"))
            /\ data_vec' = data_vec]_vars

\* C21 witness: 16384 was taken from its four bytes followed by one more
C21_Witness ==
    /\ called.fn = "get_compact" /\ called.ty = "u32"
    /\ result = Ok_Value(16384)
    /\ data_vec = <<4>>

\* the call made last was StLen::decode_value for a fixed-width type or char
FixedCalled ==
    called'.fn = "decode_value" /\ called'.ty \notin {"BigUint", "BigInt"}

\* v is what the bytes hold in little-endian order, two's complement for a
\* signed type
HoldsLE(ty, v, slice) ==
    IF ty \in {"i8", "i16"} /\ v < 0
    THEN le_bytes(v + 2 ^ (8 * Len(slice)), Len(slice)) = slice
    ELSE /\ le_bytes(v, Len(slice)) = slice
         /\ ty \in {"i8", "i16"} => v < 2 ^ (8 * Len(slice) - 1)

\* C22: StLen::decode_value for a fixed-width type T takes size_of(T) bytes
\* off the front of the data and returns their little-endian value; with
\* fewer bytes it returns DataTooShort; a bool that is not 0 or 1 and a char
\* that is no scalar value give PrimitiveFailure naming the type.
C22_FixedWidth ==
    [][FixedCalled =>
        LET ty == called'.ty
            n == size_of(ty)
            slice == SubSeq(data_vec, 1, n)
        IN  IF Len(data_vec) < n
            THEN result' = Err(Decoding("DataTooShort"))
            ELSE IF \/ ty = "bool" /\ slice[1] \notin {0, 1}
                    \/ ty = "char" /\ ~is_char(from_le_bytes(slice))
            THEN result' = Err(Decoding("PrimitiveFailure." \o ty))
            ELSE /\ result'.tag = "Ok"
                 /\ HoldsLE(ty, result'.value, slice)
                 /\ data_vec' = cut_front(data_vec, n)]_vars

\* C22 witness: 78 56 34 12 decoded as u32
C22_Witness ==
    /\ called = Called("decode_value", "u32", FALSE)
    /\ result = Ok_Value(305419896)
    /\ data_vec = <<>> /\ pc = "got"

\* C23: under the compact flag decode_checked decodes the unsigned integers
\* and the per-things as compacts, and returns UnexpectedCompactInsides for
\* every other type with the data left as it was; without the flag every
\* type is decoded fixed-width. reject_compact of a Checker is the error
\* UnexpectedCompactInsides{id} for compact_at = Some(id), Ok for None.
C23_CompactOnlyUnsigned ==
    /\ [][called'.fn = "decode_checked" =>
            LET ty == called'.ty
                out == Taken(result', data_vec')
            IN  IF ~called'.is_compact THEN out = decode_value(ty, data_vec)
                ELSE IF ty \in {"u8", "u16", "u32", "PerU16"}
                THEN out = get_compact(ty, data_vec,
                                       cut_compact(data_vec, 8 * size_of(ty)))
                ELSE out = Taken(Err(Decoding("UnexpectedCompactInsides")),
                                 data_vec)]_vars
    /\ [](/\ reject_compact(Checker_new).ok
          /\ \A id \in DOMAIN Registry :
                LET rejected ==
                        reject_compact([Checker_new EXCEPT
                                            !.compact_at = Some(id)])
                IN  /\ ~rejected.ok
                    /\ rejected.err = Error("UnexpectedCompactInsides", id, 0))

\* C23 witness: an i16 asked for under the compact flag, the data kept
C23_Witness ==
    /\ called = Called("decode_checked", "i16", TRUE)
    /\ result = Err(Decoding("UnexpectedCompactInsides"))
    /\ Len(data_vec) >= 2 /\ pc = "failed"

\* C25: when get_compact, StLen::decode_value, decode_checked,
\* special_case_account_id32 or SpecialArray::cut_and_decode returns an
\* error the data is what it was before the call; bytes are taken off only
\* by a call that succeeds.
C25_FailureKeepsData ==
    [][called'.fn \in {"get_compact", "decode_value", "decode_checked",
                       "special_case_account_id32", "cut_and_decode"} =>
        /\ result'.tag = "Err" => data_vec' = data_vec
        /\ data_vec' # data_vec => result'.tag = "Ok"]_vars

\* C25 witness: a byte that is no bool was refused and is still the first
\* of the data
C25_Witness ==
    /\ called = Called("decode_value", "bool", FALSE)
    /\ result = Err(Decoding("PrimitiveFailure.bool"))
    /\ data_vec # <<>> /\ data_vec[1] = 2

\* C26: cut_compact gives start_next_unit = Some(p) only when there is data
\* after the compact, p < len(data) being the index of its first byte, and
\* None when the compact is the whole of the data.
C26_NextUnitInData ==
    (pc = "cut" /\ result.tag = "Ok" /\ result.start_next_unit # NoId) =>
        result.start_next_unit[1] < Len(data_vec)

-----------------------------------------------------------------------------
(* Properties of spec_name_version *)

\* the pallet the search stops at, and the constant it keeps
HasSystem == \E i \in 1..Len(pallets) : pallets[i].name = "System"
SystemPallet ==
    pallets[CHOOSE i \in 1..Len(pallets) :
                /\ pallets[i].name = "System"
                /\ \A j \in 1..(i - 1) : pallets[j].name # "System"]
HasVersion ==
    \E i \in 1..Len(SystemPallet.constants) :
        SystemPallet.constants[i].name = "Version"
VersionConstant ==
    SystemPallet.constants[
        CHOOSE i \in 1..Len(SystemPallet.constants) :
            /\ SystemPallet.constants[i].name = "Version"
            /\ \A j \in (i + 1)..Len(SystemPallet.constants) :
                    SystemPallet.constants[j].name # "Version"]

\* the top-level fields of the decoded runtime version, and where among
\* them the spec version and the spec name stand
TopFields == VersionConstant.decodes.data.fields
VersionAt ==
    {i \in 1..Len(TopFields) :
        /\ TopFields[i].specialty = "SpecVersion"
        /\ TopFields[i].kind \in {"PrimitiveU8", "PrimitiveU16",
                "PrimitiveU32", "PrimitiveU64", "PrimitiveU128"}}
NameAt ==
    {i \in 1..Len(TopFields) :
        TopFields[i].specialty = "SpecName" /\ TopFields[i].kind = "Text"}
SecondOf(at) ==
    CHOOSE i \in at : Cardinality({j \in at : j < i}) = 1

\* the decimal form of the spec versions of FieldDatas
Printed == (9 :> "9") @@ (1003 :> "1003") @@ (14 :> "14") @@ (5 :> "5")

\* the outcome spec_name_version should have: "Ok" or the error
VersionOutcome ==
    IF ~HasSystem THEN "NoSystemPallet"
    ELSE IF ~HasVersion THEN "NoVersionInConstants"
    ELSE IF ~VersionConstant.decodes.ok THEN "RuntimeVersionNotDecodeable"
    ELSE IF VersionConstant.decodes.data.kind # "Composite"
    THEN "UnexpectedRuntimeVersionFormat"
    ELSE IF /\ Cardinality(VersionAt) >= 2
            /\ \/ Cardinality(NameAt) < 2
               \/ SecondOf(VersionAt) < SecondOf(NameAt)
    THEN "SpecVersionIdentifierTwice"
    ELSE IF Cardinality(NameAt) >= 2 THEN "SpecNameIdentifierTwice"
    ELSE IF VersionAt = {} THEN "NoSpecVersionIdentifier"
    ELSE IF NameAt = {} THEN "NoSpecNameIdentifier"
    ELSE "Ok"

\* C24: spec_name_version succeeds iff the pallet named System (the first
\* of that name) has a constant named Version (the last of that name) that
\* decodes into a Composite whose top-level fields hold exactly one unsigned
\* integer tagged SpecVersion, of any width, and exactly one Text tagged
\* SpecName; it then returns the version in decimal and the name.  Otherwise
\* the error is NoSystemPallet, NoVersionInConstants,
\* RuntimeVersionNotDecodeable, UnexpectedRuntimeVersionFormat, a ..Twice
\* error for the second occurrence met first, NoSpecVersionIdentifier when
\* no version is there (the name absent or not), or NoSpecNameIdentifier.
C24_SpecNameVersion ==
    Done =>
        IF VersionOutcome = "Ok"
        THEN /\ Cardinality(VersionAt) = 1 /\ Cardinality(NameAt) = 1
             /\ result =
                 [tag |-> "Ok",
                  printed_spec_version |->
                    Printed[TopFields[CHOOSE i \in VersionAt : TRUE].value],
                  spec_name |-> TopFields[CHOOSE i \in NameAt : TRUE].text]
        ELSE result = [tag |-> "Err",
                       error |-> [kind |-> VersionOutcome, inner |-> None,
                                  a |-> 0, b |-> 0]]

\* C24 witness: System is the second pallet and Version its second
\* constant; of the three fields one is a composite with a spec version of
\* its own, one a u8 spec version, one the spec name
C24_Witness ==
    /\ Done /\ result.tag = "Ok"
    /\ Len(pallets) = 2 /\ pallets[2].name = "System"
    /\ Len(pallets[2].constants) = 2
    /\ pallets[2].constants[2].name = "Version"
    /\ Len(TopFields) = 3
    /\ \E i \in 1..3 : TopFields[i].kind = "Composite"
    /\ \E i \in 1..3 : /\ TopFields[i].kind = "PrimitiveU8"
                       /\ TopFields[i].specialty = "SpecVersion"
    /\ result.printed_spec_version = "9"
    /\ result.spec_name = "node"

\* C24, both absent: a composite without fields
C24_BothAbsent ==
    /\ Done /\ result.tag = "Err"
    /\ HasSystem /\ HasVersion
    /\ VersionConstant.decodes.ok
    /\ VersionConstant.decodes.data.kind = "Composite"
    /\ \A i \in 1..Len(TopFields) : TopFields[i].specialty = None
    /\ result.error.kind = "NoSpecVersionIdentifier"

=============================================================================
